---------------------------- MODULE Spec2Model ----------------------------
(***************************************************************************)
(* Model of the recursive DNS resolver lomackie/dns.                       *)
(*                                                                         *)
(*   Spec          the TTL cache (package resolver) used by concurrent     *)
(*                 goroutines: Add, Get and the ClearExpired goroutine a   *)
(*                 Get starts, under the cache's sync.RWMutex.             *)
(*   FairSpec      Spec with the goroutines scheduled fairly.              *)
(*   ResolverSpec  Resolver.Resolve, called by the server loop one         *)
(*                 question at a time, against upstream servers that       *)
(*                 answer anything, with the cache and its cleanups.       *)
(*   FairLoopSpec  the loop of Resolve without the budget of queries, its  *)
(*                 steps taken fairly.                                     *)
(*   ParserSpec    ParseDNSMessage (package parser), step by step, on      *)
(*                 buffers of octets; FairParserSpec lets readName run.    *)
(*   SerializerSpec  the dnsWriter: names, queries and answers written.    *)
(*   ServerSpec    the loop of main: a datagram is parsed as a Query,      *)
(*                 resolved and answered.                                  *)
(*                                                                         *)
(* Time is the clock time.Now() reads, in whole seconds (the unit of a     *)
(* record's TTL).  One call of getLiveResourceRecords or                   *)
(* getLiveCachedResourceRecords reads the clock at one instant: the loop   *)
(* over a handful of entries is far shorter than the one-second unit.      *)
(***************************************************************************)
EXTENDS Naturals, Integers, Sequences, FiniteSets, TLC

VARIABLES
    now,        \* time.Now(), seconds
    records,    \* cache.records : map[cacheKey][]cachedResourceRecord
    mu,         \* cache.mu : sync.RWMutex, [w |-> the goroutine inside Lock, readers |-> RLock holders]
    pc,         \* position of every worker goroutine in Add / Get
    arg,        \* arguments of the call a worker is executing
    crrs,       \* local crrs, ok of Get: the slice read from the map under RLock
    ret,        \* what the Get a worker has just finished returned
    scheduled,  \* goroutines started by "go c.ClearExpired(k)" that are not yet inside Lock
    ce,         \* the ClearExpired goroutine that is inside Lock, if any
    added,      \* history: per key, the entries Add appended that have not expired, in order
    nAdds,      \* history: number of Add calls so far
    stack,      \* the Resolve calls in progress, the innermost last
    trace,      \* history: the queries sent since the server loop called Resolve, with their outcomes
    result,     \* what the last Resolve call of the server loop returned
    nRes,       \* history: number of Resolve calls of the server loop
    nSent,      \* history: number of queries sent to nameservers
    reader,     \* the dnsReader of the ParseDNSMessage call in progress: data, pos, parseStatus, offsetStack
    parse,      \* position of that call, the message decoded so far, the readName calls in progress, the result
    writer,     \* a dnsWriter: data, names
    wrote,      \* history: what the writer was asked to write, with the octets it appended
    server      \* main: what the loop made of the last datagram: the query, the answer, the octets sent

cvars == <<mu, pc, arg, crrs, ret, ce, added, nAdds>>
rvars == <<stack, trace, result, nRes, nSent>>
codec == <<reader, parse, writer, wrote, server>>
vars == <<now, records, scheduled, cvars, rvars, codec>>

----------------------------------------------------------------------------
(* Bounds of the model                                                     *)

MaxTime == 1        \* the clock stops ticking here
MaxAdds == 2        \* Add calls in one behaviour
MaxPending == 2     \* Gets in flight plus scheduled cleanups
MaxResolves == 2    \* Resolve calls of the server loop in one behaviour
MaxQueries == 3     \* queries sent to nameservers in one behaviour
MaxDepth == 2       \* Resolve calls nested through getAuthority

None == "none"

----------------------------------------------------------------------------
(* Data: parser.RecordType, parser.RecordClass, parser.DNSResourceRecord   *)

RTA == 1
RTNS == 2
RTCNAME == 5
RCIN == 1

(* parser.RData: the dynamic type of the value and its field *)
ARecord(ip) == [kind |-> "ARecord", IP |-> ip]
NSRecord(name) == [kind |-> "NSRecord", Name |-> name]
CNameRecord(name) == [kind |-> "CNameRecord", Name |-> name]

Workers == {"g1", "g2"}
Cleaner == "ce"

(* Records the workers Add: makeARecord(name, ttl) of the cache tests, in  *)
(* two types so that Add derives two different keys from them.             *)
Domains == {"example.com."}
DNSResourceRecord(name, type, class, ttl, rdata) ==
    [Name |-> name, Type |-> type, Class |-> class, TTL |-> ttl, RData |-> rdata]
CacheRecords ==
    {DNSResourceRecord("example.com.", RTA, RCIN, 0, ARecord("127.0.0.1")),
     DNSResourceRecord("example.com.", RTA, RCIN, 1, ARecord("127.0.0.1")),
     DNSResourceRecord("example.com.", RTNS, RCIN, 1, NSRecord("ns1."))}

cacheKey(name, type, class) == [Name |-> name, Type |-> type, Class |-> class]
CacheKeys == {cacheKey(d, t, RCIN) : d \in Domains, t \in {RTA, RTNS}}

(* every key the resolver can read or write *)
AllNames == {"example.com.", "com.", "ns1.", "ns2."}
AllKeys == {cacheKey(d, t, RCIN) : d \in AllNames, t \in {RTA, RTNS, RTCNAME}}

cachedResourceRecord(v, expiry) == [record |-> v, expiry |-> expiry]

----------------------------------------------------------------------------
(* Pure helpers of the cache                                               *)

(* mutant: !time.Now().After(crr.expiry), an entry counts as live at the   *)
(* instant it expires                                                      *)
IsLiveInclusive(crr, t) == t <= crr.expiry

(* time.Now().Before(crr.expiry) *)
IsLive(crr, t) == t < crr.expiry

(* getLiveCachedResourceRecords: the entries still live, in order *)
getLiveCachedResourceRecords(list, t) ==
    LET Keep(crr) == IsLive(crr, t) IN SelectSeq(list, Keep)

(* getLiveResourceRecords: the records of the live entries, and whether    *)
(* some entry was expired                                                  *)
getLiveResourceRecords(list, t) ==
    LET live == getLiveCachedResourceRecords(list, t)
    IN [result |-> [i \in 1..Len(live) |-> live[i].record],
        hasExpired |-> \E i \in 1..Len(list) : ~IsLive(list[i], t)]

(* c.records[k]: a missing key reads as the nil slice *)
Lookup(m, k) == IF k \in DOMAIN m THEN m[k] ELSE <<>>

MapSet(m, k, list) == [x \in DOMAIN m \cup {k} |-> IF x = k THEN list ELSE m[x]]
MapDelete(m, k) == [x \in DOMAIN m \ {k} |-> m[x]]

(* mutant: the cleanup drops the whole key as soon as one entry is expired *)
ClearExpiredStoreDropKey(m, k, t) ==
    LET list == Lookup(m, k)
    IN IF \A i \in 1..Len(list) : IsLive(list[i], t) THEN m ELSE MapDelete(m, k)

(* mutant: the cleanup stores the live entries and never deletes the key *)
ClearExpiredStoreKeepKey(m, k, t) ==
    MapSet(m, k, getLiveCachedResourceRecords(Lookup(m, k), t))

(* the write of ClearExpired: store the live entries or delete the key *)
ClearExpiredStore(m, k, t) ==
    LET live == getLiveCachedResourceRecords(Lookup(m, k), t)
    IN IF Len(live) > 0 THEN MapSet(m, k, live) ELSE MapDelete(m, k)

(* mutant: the TTL is added to the clock as nanoseconds, not seconds *)
AddStoreNanoseconds(m, domain, v, t) ==
    LET k == cacheKey(domain, v.Type, v.Class)
    IN MapSet(m, k, Append(Lookup(m, k), cachedResourceRecord(v, t)))

(* mutant: Add leaves the list alone when it already holds the record *)
AddStoreDedup(m, domain, v, t) ==
    LET k == cacheKey(domain, v.Type, v.Class)
        list == Lookup(m, k)
    IN IF \E i \in 1..Len(list) : list[i].record = v
       THEN m
       ELSE MapSet(m, k, Append(list, cachedResourceRecord(v, t + v.TTL)))

(* the write of Add: append (v, now + TTL seconds) under (domain, v.Type, v.Class) *)
AddStore(m, domain, v, t) ==
    LET k == cacheKey(domain, v.Type, v.Class)
    IN MapSet(m, k, Append(Lookup(m, k), cachedResourceRecord(v, t + v.TTL)))

----------------------------------------------------------------------------
(* sync.RWMutex.  Lock first takes the writers' mutex and announces the    *)
(* writer, which turns new RLock calls away, then waits for the readers    *)
(* that hold the lock to leave.                                            *)

(* mutant: a plain mutex, a reader keeps other readers out *)
CanRLockExclusive == mu.w = None /\ mu.readers = {}

CanRLock == mu.w = None
CanLock == mu.w = None
ReadersGone == mu.readers = {}

NoRet == [op |-> None]
NoArg == [op |-> None]
NoCe == [pc |-> "idle"]
NoResult == [status |-> None]
NoReader == [data |-> <<>>, pos |-> 0, parseStatus |-> None, offsetStack |-> <<>>]
NoParse == [pc |-> "idle"]
(* dnsWriter{names: make(map[string]int)} *)
NewWriter == [data |-> <<>>, names |-> <<>>]
NoServer == [turns |-> 0]

RECURSIVE SumOver(_, _)
SumOver(b, S) ==
    IF S = {} THEN 0
    ELSE LET x == CHOOSE y \in S : TRUE IN b[x] + SumOver(b, S \ {x})

BagSize(b) == SumOver(b, DOMAIN b)

InGet == {p \in Workers : pc[p] \in {"get_rlock", "get_read", "get_filter", "get_done"}}

----------------------------------------------------------------------------
(* NewCache, and idle goroutines                                           *)

Init ==
    /\ now = 0
    /\ records = <<>>
    /\ mu = [w |-> None, readers |-> {}]
    /\ pc = [p \in Workers |-> "idle"]
    /\ arg = [p \in Workers |-> NoArg]
    /\ crrs = [p \in Workers |-> <<>>]
    /\ ret = [p \in Workers |-> NoRet]
    /\ scheduled = [k \in AllKeys |-> 0]
    /\ ce = NoCe
    /\ added = [k \in CacheKeys |-> <<>>]
    /\ nAdds = 0
    /\ stack = <<>>
    /\ trace = <<>>
    /\ result = NoResult
    /\ nRes = 0
    /\ nSent = 0
    /\ reader = NoReader
    /\ parse = NoParse
    /\ writer = NewWriter
    /\ wrote = <<>>
    /\ server = NoServer

Tick ==
    /\ now < MaxTime
    /\ now' = now + 1
    /\ added' = [k \in CacheKeys |-> LET Future(crr) == now' < crr.expiry
                                     IN SelectSeq(added[k], Future)]
    /\ UNCHANGED <<codec, rvars, records, mu, pc, arg, crrs, ret, scheduled, ce, nAdds>>

----------------------------------------------------------------------------
(* cache.Add(domain, v)                                                    *)

AddCall(p, domain, v) ==
    /\ pc[p] = "idle"
    /\ nAdds < MaxAdds
    /\ pc' = [pc EXCEPT ![p] = "add_lock"]
    /\ arg' = [arg EXCEPT ![p] = [op |-> "Add", domain |-> domain, v |-> v]]
    /\ nAdds' = nAdds + 1
    /\ UNCHANGED <<codec, rvars, now, records, mu, crrs, ret, scheduled, ce, added>>

(* c.mu.Lock(), first half: become the announced writer *)
AddLock(p) ==
    /\ pc[p] = "add_lock"
    /\ CanLock
    /\ mu' = [mu EXCEPT !.w = p]
    /\ pc' = [pc EXCEPT ![p] = "add_wait"]
    /\ UNCHANGED <<codec, rvars, now, records, arg, crrs, ret, scheduled, ce, added, nAdds>>

(* c.mu.Lock(), second half: the readers have left *)
AddAcquire(p) ==
    /\ pc[p] = "add_wait"
    /\ ReadersGone
    /\ pc' = [pc EXCEPT ![p] = "add_cs"]
    /\ UNCHANGED <<codec, rvars, now, records, mu, arg, crrs, ret, scheduled, ce, added, nAdds>>

(* mutant: Add returns without c.mu.Unlock() *)
AddBodyNoUnlock(p) ==
    /\ pc[p] = "add_cs"
    /\ LET domain == arg[p].domain
           v == arg[p].v
           k == cacheKey(domain, v.Type, v.Class)
       IN /\ records' = AddStore(records, domain, v, now)
          /\ added' = IF v.TTL > 0
                       THEN [added EXCEPT ![k] = Append(@, cachedResourceRecord(v, now + v.TTL))]
                       ELSE added
    /\ pc' = [pc EXCEPT ![p] = "idle"]
    /\ arg' = [arg EXCEPT ![p] = NoArg]
    /\ UNCHANGED <<codec, rvars, now, mu, crrs, ret, scheduled, ce, nAdds>>

(* the body of Add and c.mu.Unlock() *)
AddBody(p) ==
    /\ pc[p] = "add_cs"
    /\ LET domain == arg[p].domain
           v == arg[p].v
           k == cacheKey(domain, v.Type, v.Class)
       IN /\ records' = AddStore(records, domain, v, now)
          /\ added' = IF v.TTL > 0
                       THEN [added EXCEPT ![k] = Append(@, cachedResourceRecord(v, now + v.TTL))]
                       ELSE added
    /\ mu' = [mu EXCEPT !.w = None]
    /\ pc' = [pc EXCEPT ![p] = "idle"]
    /\ arg' = [arg EXCEPT ![p] = NoArg]
    /\ UNCHANGED <<codec, rvars, now, crrs, ret, scheduled, ce, nAdds>>

----------------------------------------------------------------------------
(* cache.Get(k)                                                            *)

GetCall(p, k) ==
    /\ pc[p] = "idle"
    /\ BagSize(scheduled) + Cardinality(InGet) < MaxPending
    /\ pc' = [pc EXCEPT ![p] = "get_rlock"]
    /\ arg' = [arg EXCEPT ![p] = [op |-> "Get", k |-> k]]
    /\ ret' = ret
    /\ UNCHANGED <<codec, rvars, now, records, mu, crrs, scheduled, ce, added, nAdds>>

(* c.mu.RLock() *)
GetRLock(p) ==
    /\ pc[p] = "get_rlock"
    /\ CanRLock
    /\ mu' = [mu EXCEPT !.readers = @ \cup {p}]
    /\ pc' = [pc EXCEPT ![p] = "get_read"]
    /\ UNCHANGED <<codec, rvars, now, records, arg, crrs, ret, scheduled, ce, added, nAdds>>

(* crrs, ok := c.records[k]; c.mu.RUnlock(); if !ok { return nil, false } *)
GetRead(p) ==
    /\ pc[p] = "get_read"
    /\ mu' = [mu EXCEPT !.readers = @ \ {p}]
    /\ LET k == arg[p].k
       IN IF k \in DOMAIN records
          THEN /\ crrs' = [crrs EXCEPT ![p] = records[k]]
               /\ pc' = [pc EXCEPT ![p] = "get_filter"]
               /\ ret' = ret
          ELSE /\ crrs' = crrs
               /\ pc' = [pc EXCEPT ![p] = "get_done"]
               /\ ret' = [ret EXCEPT ![p] =
                            [op |-> "Get", k |-> k, result |-> <<>>, found |-> FALSE,
                             ok |-> FALSE, hasExpired |-> FALSE, t |-> now]]
    /\ UNCHANGED <<codec, rvars, now, records, arg, scheduled, ce, added, nAdds>>

(* result, hasExpired := getLiveResourceRecords(crrs);                     *)
(* if hasExpired { go c.ClearExpired(k) }; return result, len(result) > 0  *)
GetFilter(p) ==
    /\ pc[p] = "get_filter"
    /\ LET k == arg[p].k
           r == getLiveResourceRecords(crrs[p], now)
       IN /\ scheduled' = IF r.hasExpired
                          THEN [scheduled EXCEPT ![k] = @ + 1]
                          ELSE scheduled
          /\ ret' = [ret EXCEPT ![p] =
                       [op |-> "Get", k |-> k, result |-> r.result,
                        found |-> Len(r.result) > 0,
                        ok |-> TRUE, hasExpired |-> r.hasExpired, t |-> now]]
    /\ pc' = [pc EXCEPT ![p] = "get_done"]
    /\ UNCHANGED <<codec, rvars, now, records, mu, arg, crrs, ce, added, nAdds>>

(* the caller has the result; the goroutine is free for its next call *)
GetReturn(p) ==
    /\ pc[p] = "get_done"
    /\ pc' = [pc EXCEPT ![p] = "idle"]
    /\ arg' = [arg EXCEPT ![p] = NoArg]
    /\ crrs' = [crrs EXCEPT ![p] = <<>>]
    /\ ret' = [ret EXCEPT ![p] = NoRet]
    /\ UNCHANGED <<codec, rvars, now, records, mu, scheduled, ce, added, nAdds>>

----------------------------------------------------------------------------
(* cache.ClearExpired(k), run by the goroutine a Get started               *)

(* c.mu.Lock(), first half *)
CELock(k) ==
    /\ scheduled[k] > 0
    /\ ce.pc = "idle"
    /\ CanLock
    /\ scheduled' = [scheduled EXCEPT ![k] = @ - 1]
    /\ mu' = [mu EXCEPT !.w = Cleaner]
    /\ ce' = [pc |-> "ce_wait", k |-> k]
    /\ UNCHANGED <<codec, rvars, now, records, pc, arg, crrs, ret, added, nAdds>>

(* c.mu.Lock(), second half *)
CEAcquire ==
    /\ ce.pc = "ce_wait"
    /\ ReadersGone
    /\ ce' = [ce EXCEPT !.pc = "ce_cs"]
    /\ UNCHANGED <<codec, rvars, now, records, mu, pc, arg, crrs, ret, scheduled, added, nAdds>>

(* the body of ClearExpired; before and t remember the list it read and   *)
(* the clock it read                                                      *)
CEBody ==
    /\ ce.pc = "ce_cs"
    /\ records' = ClearExpiredStore(records, ce.k, now)
    /\ ce' = [pc |-> "ce_unlock", k |-> ce.k, before |-> Lookup(records, ce.k), t |-> now]
    /\ UNCHANGED <<codec, rvars, now, mu, pc, arg, crrs, ret, scheduled, added, nAdds>>

(* c.mu.Unlock(); the goroutine ends *)
CEUnlock ==
    /\ ce.pc = "ce_unlock"
    /\ mu' = [mu EXCEPT !.w = None]
    /\ ce' = NoCe
    /\ UNCHANGED <<codec, rvars, now, records, pc, arg, crrs, ret, scheduled, added, nAdds>>

----------------------------------------------------------------------------

Next ==
    \/ Tick
    \/ \E p \in Workers, d \in Domains, v \in CacheRecords : AddCall(p, d, v)
    \/ \E p \in Workers : AddLock(p)
    \/ \E p \in Workers : AddAcquire(p)
    \/ \E p \in Workers : AddBody(p)
    \/ \E p \in Workers, k \in CacheKeys : GetCall(p, k)
    \/ \E p \in Workers : GetRLock(p)
    \/ \E p \in Workers : GetRead(p)
    \/ \E p \in Workers : GetFilter(p)
    \/ \E p \in Workers : GetReturn(p)
    \/ \E k \in CacheKeys : CELock(k)
    \/ CEAcquire
    \/ CEBody
    \/ CEUnlock

Spec == Init /\ [][Next]_vars

(* fairness: a goroutine that can take its next step takes it, and a      *)
(* goroutine waiting in Lock or RLock gets the lock once it stays free.    *)
(* Nothing forces a new call or a tick of the clock.                       *)
WorkerStep(p) ==
    \/ AddLock(p) \/ AddAcquire(p) \/ AddBody(p)
    \/ GetRLock(p) \/ GetRead(p) \/ GetFilter(p) \/ GetReturn(p)

CleanerStep == CEAcquire \/ CEBody \/ CEUnlock

Fairness ==
    /\ \A p \in Workers : WF_vars(WorkerStep(p))
    /\ \A k \in CacheKeys : WF_vars(CELock(k))
    /\ WF_vars(CleanerStep)

FairSpec == Spec /\ Fairness

----------------------------------------------------------------------------
(* The resolver: data                                                      *)

(* rootServers, two of the compiled-in addresses *)
RootServers == {"170.247.170.2", "192.33.4.12"}

UDP == "UDP"
TCP == "TCP"

(* a parser.DNSMessage as ParseDNSMessage returns it: each section holds   *)
(* as many records as the header count says                                *)
DNSMessage(tc, an, ns, ar) ==
    [Header |-> [TC |-> tc, ANCount |-> Len(an), NSCount |-> Len(ns), ARCount |-> Len(ar)],
     Answers |-> an, Authorities |-> ns, Additionals |-> ar]

ansA1 == DNSResourceRecord("example.com.", RTA, RCIN, 1, ARecord("93.184.216.34"))
ansA0 == DNSResourceRecord("example.com.", RTA, RCIN, 0, ARecord("93.184.216.34"))
ansCN == DNSResourceRecord("example.com.", RTCNAME, RCIN, 1, CNameRecord("ns1."))
nsCom == DNSResourceRecord("com.", RTNS, RCIN, 1, NSRecord("ns1."))
nsEx == DNSResourceRecord("example.com.", RTNS, RCIN, 1, NSRecord("ns2."))
glue1 == DNSResourceRecord("ns1.", RTA, RCIN, 1, ARecord("10.0.0.1"))
glue2 == DNSResourceRecord("ns2.", RTA, RCIN, 1, ARecord("10.0.0.2"))

(* what an upstream server can answer: an answer with authority and glue,  *)
(* an answer with TTL 0, an answer of another type than asked, referrals   *)
(* with and without glue, nothing at all, and truncated responses          *)
Responses ==
    {DNSMessage(FALSE, <<ansA1>>, <<nsEx>>, <<glue2>>),
     DNSMessage(FALSE, <<ansA0>>, <<>>, <<>>),
     DNSMessage(FALSE, <<ansCN>>, <<>>, <<>>),
     DNSMessage(FALSE, <<>>, <<nsCom>>, <<glue1, glue2>>),
     DNSMessage(FALSE, <<>>, <<nsCom, nsEx>>, <<>>),
     DNSMessage(FALSE, <<>>, <<>>, <<>>),
     DNSMessage(TRUE, <<>>, <<>>, <<>>),
     DNSMessage(TRUE, <<ansA1>>, <<>>, <<>>)}

(* SendMessage or ParseDNSMessage returned an error *)
TransportError == [err |-> "transport"]
ParseError == [err |-> "parse"]
Outcomes == Responses \cup {TransportError, ParseError}
IsError(o) == "err" \in DOMAIN o

Questions == {[domain |-> "example.com.", qtype |-> RTA, qclass |-> RCIN]}

(* what Resolve returns; t is history, the time of the return *)
Ok(answers) == [status |-> "ok", answers |-> answers, t |-> now]
Err(kind) == [status |-> "err", err |-> kind]
Panic == [status |-> "panic"]

Frame(domain, qtype, qclass) ==
    [domain |-> domain, qtype |-> qtype, qclass |-> qclass,
     pc |-> "start", ns |-> None, msg |-> None, remaining |-> {}]

Top == stack[Len(stack)]
SetTop(f) == [stack EXCEPT ![Len(stack)] = f]

----------------------------------------------------------------------------
(* The resolver: pure helpers                                              *)

(* getRecordIP: the IP of an ARecord, nil for any other RData *)
getRecordIP(rr) == IF rr.RData.kind = "ARecord" THEN rr.RData.IP ELSE None

(* mutant: the additional section is not looked at *)
getAuthoritiesNoGlue(msg) ==
    [n \in {msg.Authorities[i].Name : i \in 1..Len(msg.Authorities)} |-> None]

(* getAuthorities: every authority record's name with nil, then every      *)
(* additional record that has an IP overwrites the entry of its name       *)
getAuthorities(msg) ==
    LET au == msg.Authorities
        ad == msg.Additionals
        WithIP(n) == {i \in 1..Len(ad) : ad[i].Name = n /\ getRecordIP(ad[i]) # None}
        Last(S) == CHOOSE i \in S : \A j \in S : j <= i
        names == {au[i].Name : i \in 1..Len(au)}
                     \cup {ad[i].Name : i \in {j \in 1..Len(ad) : getRecordIP(ad[j]) # None}}
    IN [n \in names |-> IF WithIP(n) = {} THEN None ELSE getRecordIP(ad[Last(WithIP(n))])]

(* cacheMessage: Add every answer, authority and additional under domain *)
RECURSIVE AddAll(_, _, _, _)
AddAll(m, domain, list, t) ==
    IF list = <<>> THEN m
    ELSE AddAll(AddStore(m, domain, Head(list), t), domain, Tail(list), t)

(* mutant: only the answer section is cached *)
cacheMessageAnswersOnly(m, domain, msg, t) == AddAll(m, domain, msg.Answers, t)

cacheMessage(m, domain, msg, t) ==
    AddAll(AddAll(AddAll(m, domain, msg.Answers, t), domain, msg.Authorities, t),
           domain, msg.Additionals, t)

----------------------------------------------------------------------------
(* The resolver: Resolve, resolveOnce, getAuthority                        *)

(* mutant: the failure of a nested Resolve fails the Resolve above it too *)
ReturnAbort(out) ==
    IF Len(stack) = 1 \/ out.status = "err"
    THEN /\ stack' = <<>>
         /\ result' = out
    ELSE LET parent == stack[Len(stack) - 1]
             below == SubSeq(stack, 1, Len(stack) - 2)
         IN /\ \E i \in 1..Len(out.answers) :
                  LET ip == getRecordIP(out.answers[i])
                  IN stack' = Append(below,
                                IF ip # None
                                THEN [parent EXCEPT !.pc = "udp", !.ns = ip]
                                ELSE [parent EXCEPT !.pc = "auth"])
            /\ result' = result

(* Resolve returns out: to the server loop, or to the getAuthority that    *)
(* called it, which takes the IP of a random answer as the next nameserver *)
(* or goes on to the next authority name                                   *)
Return(out) ==
    IF Len(stack) = 1
    THEN /\ stack' = <<>>
         /\ result' = out
    ELSE LET parent == stack[Len(stack) - 1]
             below == SubSeq(stack, 1, Len(stack) - 2)
         IN IF out.status = "err"
            THEN /\ stack' = Append(below, [parent EXCEPT !.pc = "auth"])
                 /\ result' = result
            ELSE IF out.answers = <<>>
            THEN /\ stack' = <<>>              \* rand.Intn(0) panics
                 /\ result' = Panic
            ELSE /\ \E i \in 1..Len(out.answers) :
                       LET ip == getRecordIP(out.answers[i])
                       IN stack' = Append(below,
                                     IF ip # None
                                     THEN [parent EXCEPT !.pc = "udp", !.ns = ip]
                                     ELSE [parent EXCEPT !.pc = "auth"])
                 /\ result' = result

(* the server loop calls Resolve for a question *)
ResolveCall(q) ==
    /\ stack = <<>>
    /\ nRes < MaxResolves
    /\ stack' = <<Frame(q.domain, q.qtype, q.qclass)>>
    /\ trace' = <<>>
    /\ result' = NoResult
    /\ nRes' = nRes + 1
    /\ UNCHANGED <<codec, now, records, scheduled, cvars, nSent>>

(* mutant: the Get reports found whenever the key is in the map *)
CacheCheckFoundOnPresent ==
    /\ stack # <<>>
    /\ Top.pc = "start"
    /\ LET ck == cacheKey(Top.domain, Top.qtype, Top.qclass)
           g == getLiveResourceRecords(Lookup(records, ck), now)
           found == ck \in DOMAIN records
       IN /\ scheduled' = IF ck \in DOMAIN records /\ g.hasExpired
                          THEN [scheduled EXCEPT ![ck] = @ + 1]
                          ELSE scheduled
          /\ IF found
             THEN Return(Ok(g.result))
             ELSE /\ \E root \in RootServers :
                        stack' = SetTop([Top EXCEPT !.pc = "udp", !.ns = root])
                  /\ result' = result
    /\ UNCHANGED <<codec, now, records, cvars, trace, nRes, nSent>>

(* Resolve: the cache check, and the choice of a root on a miss.  The Get  *)
(* is one step: between its read of the map and its filter only cleanups   *)
(* can run (the server loop resolves one question at a time), and they     *)
(* remove nothing that the filter would keep.                              *)
CacheCheck ==
    /\ stack # <<>>
    /\ Top.pc = "start"
    /\ LET ck == cacheKey(Top.domain, Top.qtype, Top.qclass)
           g == getLiveResourceRecords(Lookup(records, ck), now)
           found == ck \in DOMAIN records /\ Len(g.result) > 0
       IN /\ scheduled' = IF ck \in DOMAIN records /\ g.hasExpired
                          THEN [scheduled EXCEPT ![ck] = @ + 1]
                          ELSE scheduled
          /\ IF found
             THEN Return(Ok(g.result))
             ELSE /\ \E root \in RootServers :
                        stack' = SetTop([Top EXCEPT !.pc = "udp", !.ns = root])
                  /\ result' = result
    /\ UNCHANGED <<codec, now, records, cvars, trace, nRes, nSent>>

Sent(protocol, o) ==
    [protocol |-> protocol, ns |-> Top.ns, domain |-> Top.domain,
     qtype |-> Top.qtype, qclass |-> Top.qclass, outcome |-> o]

(* mutant: after an error the loop goes back to a root server *)
SendUDPRetryRoot(o) ==
    /\ stack # <<>>
    /\ Top.pc = "udp"
    /\ nSent < MaxQueries
    /\ nSent' = nSent + 1
    /\ trace' = Append(trace, Sent(UDP, o))
    /\ IF IsError(o)
       THEN /\ \E root \in RootServers : stack' = SetTop([Top EXCEPT !.ns = root])
            /\ result' = result
       ELSE /\ stack' = SetTop([Top EXCEPT !.msg = o,
                                           !.pc = IF o.Header.TC THEN "tcp" ELSE "got"])
            /\ result' = result
    /\ UNCHANGED <<codec, now, records, scheduled, cvars, nRes>>

(* resolveOnce(domain, qtype, qclass, ns, server.UDP) and the test of TC *)
SendUDP(o) ==
    /\ stack # <<>>
    /\ Top.pc = "udp"
    /\ nSent < MaxQueries
    /\ nSent' = nSent + 1
    /\ trace' = Append(trace, Sent(UDP, o))
    /\ IF IsError(o)
       THEN Return(Err(o.err))
       ELSE /\ stack' = SetTop([Top EXCEPT !.msg = o,
                                           !.pc = IF o.Header.TC THEN "tcp" ELSE "got"])
            /\ result' = result
    /\ UNCHANGED <<codec, now, records, scheduled, cvars, nRes>>

(* mutant: the TCP response is dropped and the UDP response kept *)
SendTCPKeepUDP(o) ==
    /\ stack # <<>>
    /\ Top.pc = "tcp"
    /\ nSent < MaxQueries
    /\ nSent' = nSent + 1
    /\ trace' = Append(trace, Sent(TCP, o))
    /\ IF IsError(o)
       THEN Return(Err(o.err))
       ELSE /\ stack' = SetTop([Top EXCEPT !.pc = "got"])
            /\ result' = result
    /\ UNCHANGED <<codec, now, records, scheduled, cvars, nRes>>

(* resolveOnce(domain, qtype, qclass, ns, server.TCP) *)
SendTCP(o) ==
    /\ stack # <<>>
    /\ Top.pc = "tcp"
    /\ nSent < MaxQueries
    /\ nSent' = nSent + 1
    /\ trace' = Append(trace, Sent(TCP, o))
    /\ IF IsError(o)
       THEN Return(Err(o.err))
       ELSE /\ stack' = SetTop([Top EXCEPT !.msg = o, !.pc = "got"])
            /\ result' = result
    /\ UNCHANGED <<codec, now, records, scheduled, cvars, nRes>>

(* the rest of the loop body: cache and return the answers, or take the    *)
(* next nameserver from getAuthority's first loop, or enter its second     *)
Process ==
    /\ stack # <<>>
    /\ Top.pc = "got"
    /\ LET msg == Top.msg
           authorities == getAuthorities(msg)
           glue == {authorities[n] : n \in DOMAIN authorities} \ {None}
       IN IF msg.Header.ANCount > 0
          THEN /\ records' = cacheMessage(records, Top.domain, msg, now)
               /\ Return(Ok(msg.Answers))
          ELSE /\ records' = records
               /\ result' = result
               /\ IF glue # {}
                  THEN \E ip \in glue :
                         stack' = SetTop([Top EXCEPT !.pc = "udp", !.ns = ip, !.msg = None])
                  ELSE stack' = SetTop([Top EXCEPT !.pc = "auth", !.msg = None,
                                                   !.remaining = DOMAIN authorities])
    /\ UNCHANGED <<codec, now, scheduled, cvars, trace, nRes, nSent>>

(* getAuthority's second loop: Resolve the next authority name for (A, IN), *)
(* or fail when none is left                                                *)
AuthNext ==
    /\ stack # <<>>
    /\ Top.pc = "auth"
    /\ IF Top.remaining = {}
       THEN Return(Err("no-authority"))
       ELSE /\ Len(stack) < MaxDepth
            /\ \E k \in Top.remaining :
                  stack' = Append(SetTop([Top EXCEPT !.pc = "auth_wait",
                                                     !.remaining = @ \ {k}]),
                                  Frame(k, RTA, RCIN))
            /\ result' = result
    /\ UNCHANGED <<codec, now, records, scheduled, cvars, trace, nRes, nSent>>

(* a ClearExpired goroutine started by a Get of the resolver runs; the     *)
(* resolver is the only other user of the cache, so the lock is free       *)
CleanupRun(k) ==
    /\ scheduled[k] > 0
    /\ scheduled' = [scheduled EXCEPT ![k] = @ - 1]
    /\ records' = ClearExpiredStore(records, k, now)
    /\ UNCHANGED <<codec, now, cvars, rvars>>

ResolverNext ==
    \/ Tick
    \/ \E q \in Questions : ResolveCall(q)
    \/ CacheCheck
    \/ \E o \in Outcomes : SendUDP(o)
    \/ \E o \in Outcomes : SendTCP(o)
    \/ Process
    \/ AuthNext
    \/ \E k \in AllKeys : CleanupRun(k)

ResolverSpec == Init /\ [][ResolverNext]_vars

(* The same resolver without the budget of queries and without the history *)
(* of what was sent: the loop of Resolve as the code has it, which sends   *)
(* as long as the responses make it.  The upstream servers answer with a   *)
(* referral with or without glue, with an answer, with a truncated         *)
(* response or not at all; what is cached outlives the behaviour, so the   *)
(* clock and the cleanups play no part.                                    *)
LoopOutcomes ==
    {DNSMessage(FALSE, <<ansA1>>, <<nsEx>>, <<glue2>>),
     DNSMessage(FALSE, <<>>, <<nsCom>>, <<glue1, glue2>>),
     DNSMessage(FALSE, <<>>, <<nsCom, nsEx>>, <<>>),
     DNSMessage(TRUE, <<>>, <<>>, <<>>),
     TransportError}

(* resolveOnce over protocol and, for UDP, the test of TC *)
ResolveOnce(protocol, o) ==
    /\ stack # <<>>
    /\ Top.pc = (IF protocol = UDP THEN "udp" ELSE "tcp")
    /\ IF IsError(o)
       THEN Return(Err(o.err))
       ELSE /\ stack' = SetTop([Top EXCEPT !.msg = o,
                                           !.pc = IF protocol = UDP /\ o.Header.TC
                                                  THEN "tcp" ELSE "got"])
            /\ result' = result
    /\ UNCHANGED <<codec, now, records, scheduled, cvars, trace, nRes, nSent>>

(* getAuthority's second loop.  MaxDepth Resolve calls deep, the nested    *)
(* Resolve is not followed: it is taken to fail, as it does when its query *)
(* meets a transport error, and the loop goes on to the next name.         *)
GetAuthorityNext ==
    /\ stack # <<>>
    /\ Top.pc = "auth"
    /\ IF Top.remaining = {}
       THEN Return(Err("no-authority"))
       ELSE /\ \E k \in Top.remaining :
                  stack' = IF Len(stack) < MaxDepth
                           THEN Append(SetTop([Top EXCEPT !.pc = "auth_wait",
                                                          !.remaining = @ \ {k}]),
                                       Frame(k, RTA, RCIN))
                           ELSE SetTop([Top EXCEPT !.remaining = @ \ {k}])
            /\ result' = result
    /\ UNCHANGED <<codec, now, records, scheduled, cvars, trace, nRes, nSent>>

(* the next step of the sequential code of Resolve *)
ResolveStep ==
    \/ CacheCheck
    \/ \E o \in LoopOutcomes : ResolveOnce(UDP, o)
    \/ \E o \in LoopOutcomes : ResolveOnce(TCP, o)
    \/ Process
    \/ GetAuthorityNext

LoopNext ==
    \/ \E q \in Questions : ResolveCall(q)
    \/ ResolveStep

LoopSpec == Init /\ [][LoopNext]_vars

(* the goroutine inside Resolve runs, and every query it sends gets a      *)
(* response or an error                                                    *)
FairLoopSpec == LoopSpec /\ WF_vars(ResolveStep)

----------------------------------------------------------------------------
(* The wire format: octets and strings                                     *)
(* A []byte and a Go string are sequences of octets (0..255).              *)

Dot == 46       \* "."

(* a & b and a | b on unsigned integers *)
RECURSIVE BitAnd(_, _)
BitAnd(a, b) ==
    IF a = 0 \/ b = 0 THEN 0
    ELSE 2 * BitAnd(a \div 2, b \div 2) + (IF a % 2 = 1 /\ b % 2 = 1 THEN 1 ELSE 0)
RECURSIVE BitOr(_, _)
BitOr(a, b) ==
    IF a = 0 THEN b ELSE IF b = 0 THEN a
    ELSE 2 * BitOr(a \div 2, b \div 2) + (IF a % 2 = 1 \/ b % 2 = 1 THEN 1 ELSE 0)

(* binary.BigEndian.PutUint16 / PutUint32 *)
PutUint16(v) == <<(v \div 256) % 256, v % 256>>
PutUint32(v) == <<(v \div 16777216) % 256, (v \div 65536) % 256, (v \div 256) % 256, v % 256>>

(* strings.Split(v, "."), strings.Join(tokens, "."), strings.HasSuffix and *)
(* strings.TrimSuffix for the suffix "."                                   *)
RECURSIVE Split(_)
Split(v) ==
    IF \A i \in 1..Len(v) : v[i] # Dot THEN <<v>>
    ELSE LET i == CHOOSE j \in 1..Len(v) : v[j] = Dot /\ \A h \in 1..(j-1) : v[h] # Dot
         IN <<SubSeq(v, 1, i - 1)>> \o Split(SubSeq(v, i + 1, Len(v)))
RECURSIVE Join(_)
Join(tokens) ==
    IF tokens = <<>> THEN <<>>
    ELSE IF Len(tokens) = 1 THEN tokens[1]
    ELSE tokens[1] \o <<Dot>> \o Join(Tail(tokens))
HasSuffix(v) == v # <<>> /\ v[Len(v)] = Dot
TrimSuffix(v) == IF HasSuffix(v) THEN SubSeq(v, 1, Len(v) - 1) ELSE v

----------------------------------------------------------------------------
(* The serializer (dnsWriter)                                              *)

PointerMask == 192      \* 0xC0
OffsetMask == 63        \* 0x3F
QRMask == 32768         \* 0x8000
OpcodeMask == 30720     \* 0x7800
AAMask == 1024          \* 0x0400
TCMask == 512           \* 0x0200
RDMask == 256           \* 0x0100
RAMask == 128           \* 0x0080
ZMask == 112            \* 0x0070
RCodeMask == 15         \* 0x000F
RTMX == 15
RTTXT == 16
RTAAAA == 28

MXRecord(preference, exchange) ==
    [kind |-> "MXRecord", Preference |-> preference, Exchange |-> exchange]
TXTRecord(data) == [kind |-> "TXTRecord", Data |-> data]
AAAARecord(ip) == [kind |-> "AAAARecord", IP |-> ip]

DNSHeader(id, flags, qd, an, ns, ar) ==
    [ID |-> id, flags |-> flags, QDCount |-> qd, ANCount |-> an, NSCount |-> ns, ARCount |-> ar]
DNSQuestion(name, type, class) == [QName |-> name, QType |-> type, QClass |-> class]
(* a DNSResourceRecord with its RDLength field *)
ResourceRecord(name, type, class, ttl, rdlength, rdata) ==
    [Name |-> name, Type |-> type, Class |-> class, TTL |-> ttl,
     RDLength |-> rdlength, RData |-> rdata]
(* a DNSMessage as the parser and the serializer see it *)
WireMessage(h, qs, an, ns, ar) ==
    [Header |-> h, Questions |-> qs, Answers |-> an, Authorities |-> ns, Additionals |-> ar]

writeBytes(s, v) == [s EXCEPT !.data = @ \o v]
writeByte(s, v) == writeBytes(s, <<v>>)
writeUint16(s, v) == writeBytes(s, PutUint16(v))
writeUint32(s, v) == writeBytes(s, PutUint32(v))
(* byte(len(v)) keeps the low eight bits *)
writeString(s, v) == writeBytes(writeByte(s, Len(v) % 256), v)
writePointer(s, offset) == writeUint16(s, BitOr(PointerMask * 256, offset % 65536))

(* the loop of writeName from token i on; returned tells that it ended in  *)
(* the return after writePointer                                           *)
RECURSIVE writeNameLoop(_, _, _)
writeNameLoop(s, tokens, i) ==
    IF i > Len(tokens) THEN [s |-> s, returned |-> FALSE]
    ELSE LET suffix == Join(SubSeq(tokens, i, Len(tokens)))
         IN IF suffix \in DOMAIN s.names
            THEN [s |-> writePointer(s, s.names[suffix]), returned |-> TRUE]
            ELSE LET s1 == IF tokens[i] # <<>>
                           THEN [s EXCEPT !.names = MapSet(@, suffix, Len(s.data))]
                           ELSE s
                 IN writeNameLoop(writeString(s1, tokens[i]), tokens, i + 1)

writeName(s, v) ==
    LET r == writeNameLoop(s, Split(v), 1)
    IN IF r.returned THEN r.s
       ELSE IF ~HasSuffix(v) THEN writeByte(r.s, 0) ELSE r.s

RECURSIVE writeStrings(_, _)
writeStrings(s, list) ==
    IF list = <<>> THEN s ELSE writeStrings(writeString(s, Head(list)), Tail(list))

(* writeRData for the record types of the model; a type without a case    *)
(* writes nothing                                                          *)
writeRData(s, rdata) ==
    CASE rdata.kind = "ARecord" -> writeBytes(s, rdata.IP)
      [] rdata.kind = "NSRecord" -> writeName(s, rdata.Name)
      [] rdata.kind = "CNameRecord" -> writeName(s, rdata.Name)
      [] rdata.kind = "MXRecord" -> writeString(writeUint16(s, rdata.Preference), rdata.Exchange)
      [] rdata.kind = "TXTRecord" -> writeStrings(s, rdata.Data)
      [] OTHER -> s

serializeDNSHeader(s, h) ==
    writeUint16(writeUint16(writeUint16(writeUint16(writeUint16(writeUint16(s,
        h.ID), h.flags), h.QDCount), h.ANCount), h.NSCount), h.ARCount)

RECURSIVE serializeDNSQuestion(_, _)
serializeDNSQuestion(s, qs) ==
    IF qs = <<>> THEN s
    ELSE LET q == Head(qs)
         IN serializeDNSQuestion(
                writeUint16(writeUint16(writeName(s, q.QName), q.QType), q.QClass),
                Tail(qs))

RECURSIVE serializeDNSResourceRecord(_, _)
serializeDNSResourceRecord(s, rrs) ==
    IF rrs = <<>> THEN s
    ELSE LET rr == Head(rrs)
             s1 == writeUint16(writeUint16(writeName(s, rr.Name), rr.Type), rr.Class)
             s2 == writeUint16(writeUint32(s1, rr.TTL), rr.RDLength)
         IN serializeDNSResourceRecord(writeRData(s2, rr.RData), Tail(rrs))

(* the dnsWriter s of SerializeDNSMessage before it returns s.data *)
Serializer(m) ==
    serializeDNSResourceRecord(
      serializeDNSResourceRecord(
        serializeDNSResourceRecord(
          serializeDNSQuestion(serializeDNSHeader(NewWriter, m.Header), m.Questions),
          m.Answers),
        m.Authorities),
      m.Additionals)
SerializeDNSMessage(m) == Serializer(m).data

(* setQR(true), setRA(true) on a header's flags *)
setQR(flags, b) ==
    LET cleared == flags - BitAnd(flags, QRMask) IN IF b THEN BitOr(cleared, QRMask) ELSE cleared
setRA(flags, b) ==
    LET cleared == flags - BitAnd(flags, RAMask) IN IF b THEN BitOr(cleared, RAMask) ELSE cleared

(* CreateAnswerMessage without header.setRA(true) *)
CreateAnswerMessageNoRA(q, answers) ==
    WireMessage(DNSHeader(q.Header.ID, setQR(0, TRUE),
                          q.Header.QDCount, Len(answers) % 65536, 0, 0),
                q.Questions, answers, <<>>, <<>>)

CreateAnswerMessage(q, answers) ==
    WireMessage(DNSHeader(q.Header.ID, setRA(setQR(0, TRUE), TRUE),
                          q.Header.QDCount, Len(answers) % 65536, 0, 0),
                q.Questions, answers, <<>>, <<>>)

FormErr == 1
setRCode(flags, rcode) ==
    BitOr(flags - BitAnd(flags, RCodeMask), BitAnd(rcode, RCodeMask))

(* errors are values with a dynamic type: errors.New makes an              *)
(* *errors.errorString, which has the method Error alone; a CustomError    *)
(* has GetID as well                                                       *)
NilError == [type |-> "nil", msg |-> "", id |-> 0]
New(msg) == [type |-> "*errors.errorString", msg |-> msg, id |-> 0]
CustomError(msg, id) == [type |-> "CustomError", msg |-> msg, id |-> id]
GetID(err) == err.id
As(err) == err.type = "CustomError"

CreateErrorResponseMessage(err) ==
    WireMessage(DNSHeader(GetID(err), setRCode(setRA(setQR(0, TRUE), TRUE), FormErr),
                          0, 0, 0, 0),
                <<>>, <<>>, <<>>, <<>>)

(* CreateQuery with the ID that generateID drew *)
CreateQuery(id, domain, qtype, qclass) ==
    SerializeDNSMessage(WireMessage(DNSHeader(id, 0, 1, 0, 0, 0),
                                    <<DNSQuestion(domain, qtype, qclass)>>,
                                    <<>>, <<>>, <<>>))

----------------------------------------------------------------------------
(* The parser (dnsReader): reading                                         *)
(* A read returns [ok, val, r]: whether it succeeded, the value and the    *)
(* reader after it.  pos counts the octets before the cursor.              *)

Query == "Query"
Response == "Response"
parsingHeader == "parsingHeader"
parsingQuestion == "parsingQuestion"
parsingResourceRecords == "parsingResourceRecords"

Failed(r) == [ok |-> FALSE, val |-> None, r |-> r]
Read(r, val, n) == [ok |-> TRUE, val |-> val, r |-> [r EXCEPT !.pos = @ + n]]

(* binary.BigEndian.Uint16 / Uint32 of the octets after offset p *)
Uint16At(data, p) == data[p + 1] * 256 + data[p + 2]
Uint32At(data, p) ==
    data[p + 1] * 16777216 + data[p + 2] * 65536 + data[p + 3] * 256 + data[p + 4]

readUint16(r) ==
    IF r.pos + 2 > Len(r.data) THEN Failed(r) ELSE Read(r, Uint16At(r.data, r.pos), 2)
readUint32(r) ==
    IF r.pos + 4 > Len(r.data) THEN Failed(r) ELSE Read(r, Uint32At(r.data, r.pos), 4)
(* out of bounds, or a number of octets that is not positive *)
readBytes(r, n) ==
    IF r.pos + n > Len(r.data) \/ n <= 0 THEN Failed(r)
    ELSE Read(r, SubSeq(r.data, r.pos + 1, r.pos + n), n)
readByte(r) ==
    IF r.pos >= Len(r.data) THEN Failed(r) ELSE Read(r, r.data[r.pos + 1], 1)
readString(r) ==
    LET length == readByte(r)
    IN IF ~length.ok THEN Failed(r) ELSE readBytes(length.r, length.val)
readIP(r) == readBytes(r, 4)
readIPv6(r) == readBytes(r, 16)

(* the getters of DNSHeader *)
GetQR(h) == BitAnd(h.flags, QRMask) # 0
GetOpcode(h) == BitAnd(h.flags, OpcodeMask) \div 2048
GetAA(h) == BitAnd(h.flags, AAMask) # 0
GetTC(h) == BitAnd(h.flags, TCMask) # 0
GetRD(h) == BitAnd(h.flags, RDMask) # 0
GetRA(h) == BitAnd(h.flags, RAMask) # 0
GetZ(h) == BitAnd(h.flags, ZMask) \div 16
GetRCode(h) == BitAnd(h.flags, RCodeMask)

(* mutant: a query may announce answers *)
validateHeaderNoANCount(h, mode) ==
    IF mode = Query
    THEN ~GetQR(h) /\ ~GetAA(h) /\ ~GetRA(h) /\ GetZ(h) = 0 /\ GetRCode(h) = 0
         /\ h.QDCount # 0 /\ h.NSCount = 0 /\ h.ARCount = 0
    ELSE GetQR(h)

(* mutant: a response needs no QR bit *)
validateHeaderAnyResponse(h, mode) ==
    IF mode = Query
    THEN ~GetQR(h) /\ ~GetAA(h) /\ ~GetRA(h) /\ GetZ(h) = 0 /\ GetRCode(h) = 0
         /\ h.QDCount # 0 /\ h.ANCount = 0 /\ h.NSCount = 0 /\ h.ARCount = 0
    ELSE TRUE

(* validateHeader: TRUE when it returns nil *)
validateHeader(h, mode) ==
    IF mode = Query
    THEN ~GetQR(h) /\ ~GetAA(h) /\ ~GetRA(h) /\ GetZ(h) = 0 /\ GetRCode(h) = 0
         /\ h.QDCount # 0 /\ h.ANCount = 0 /\ h.NSCount = 0 /\ h.ARCount = 0
    ELSE GetQR(h)

(* the loop of parseTXTRecord: strings until the cursor reaches the end    *)
RECURSIVE parseTXTLoop(_, _, _)
parseTXTLoop(r, end, recs) ==
    IF r.pos < end
    THEN LET rec == readString(r)
         IN IF ~rec.ok THEN Failed(r) ELSE parseTXTLoop(rec.r, end, Append(recs, rec.val))
    ELSE [ok |-> TRUE, val |-> recs, r |-> r]

----------------------------------------------------------------------------
(* The parser: ParseDNSMessage                                             *)

EmptyMessage == WireMessage(DNSHeader(0, 0, 0, 0, 0, 0), <<>>, <<>>, <<>>, <<>>)
Sections == <<"Answers", "Authorities", "Additionals">>
SectionCount(h, sect) ==
    CASE sect = 1 -> h.ANCount [] sect = 2 -> h.NSCount [] sect = 3 -> h.ARCount

(* ParseDNSMessage returns: the message and nil, or DNSMessage{} and an    *)
(* error.  at, cause and advances are history: where the call failed and    *)
(* why, and for every record decoded its RDLength with the cursor advance  *)
(* over its RDATA.                                                         *)
Returns(ok, m, cause) ==
    [pc |-> "done", mode |-> parse.mode, orig |-> parse.orig,
     ok |-> ok, m |-> IF ok THEN m ELSE EmptyMessage,
     at |-> parse.pc, cause |-> cause, status |-> reader.parseStatus,
     advances |-> parse.advances]
Fails(cause) == parse' = Returns(FALSE, EmptyMessage, cause)

(* a call of readName: the tokens so far; a call made by                   *)
(* readNameFromOffset also has the startPos to go back to                  *)
NameCall(startPos) == [tokens |-> <<>>, startPos |-> startPos]
CallReadName(after) ==
    [parse EXCEPT !.pc = "name", !.names = <<NameCall(None)>>, !.ret = after]

(* ParseDNSMessage(query, mode) is called; orig is history, the message    *)
(* the octets were serialized from, if any                                 *)
Begin(query, mode, orig) ==
    /\ parse.pc = "idle"
    /\ reader' = [data |-> query, pos |-> 0, parseStatus |-> parsingHeader,
                  offsetStack |-> <<>>]
    /\ parse' = [pc |-> "header", mode |-> mode, orig |-> orig, m |-> EmptyMessage,
                 sect |-> 0, i |-> 0, names |-> <<>>, ret |-> None, name |-> <<>>,
                 rr |-> None, startPos |-> 0, advances |-> <<>>]
ParseCall(query, mode, orig) ==
    /\ Begin(query, mode, orig)
    /\ UNCHANGED <<now, records, scheduled, cvars, rvars, writer, wrote, server>>

(* the caller has taken what ParseDNSMessage returned and waits for the    *)
(* next buffer; the reader was a local of the call                         *)
ParseReturn ==
    /\ parse.pc = "done"
    /\ parse' = NoParse
    /\ reader' = NoReader
    /\ UNCHANGED <<now, records, scheduled, cvars, rvars, writer, wrote, server>>

(* parseDNSHeader: six 16-bit fields and validateHeader *)
parseDNSHeader ==
    /\ parse.pc = "header"
    /\ IF Len(reader.data) < 12
       THEN /\ Fails("bounds")
            /\ reader' = reader
       ELSE LET d == reader.data
                h == DNSHeader(Uint16At(d, 0), Uint16At(d, 2), Uint16At(d, 4),
                               Uint16At(d, 6), Uint16At(d, 8), Uint16At(d, 10))
            IN IF validateHeader(h, parse.mode)
               THEN /\ reader' = [reader EXCEPT !.pos = 12, !.parseStatus = parsingQuestion]
                    /\ parse' = [parse EXCEPT !.pc = "question", !.m.Header = h, !.i = 0]
               ELSE /\ Fails("header")
                    /\ reader' = [reader EXCEPT !.pos = 12]
    /\ UNCHANGED <<now, records, scheduled, cvars, rvars, writer, wrote, server>>

(* parseDNSQuestion, the head of its loop: the next QName, or the end of   *)
(* the question section, where a query is complete                         *)
parseDNSQuestion ==
    /\ parse.pc = "question"
    /\ IF parse.i < parse.m.Header.QDCount
       THEN /\ parse' = CallReadName("qfixed")
            /\ reader' = reader
       ELSE /\ reader' = [reader EXCEPT !.parseStatus = parsingResourceRecords]
            /\ IF parse.mode = Query
               THEN parse' = [Returns(TRUE, parse.m, None) EXCEPT
                                 !.status = parsingResourceRecords]
               ELSE parse' = [parse EXCEPT !.pc = "rr", !.sect = 1, !.i = 0]
    /\ UNCHANGED <<now, records, scheduled, cvars, rvars, writer, wrote, server>>

(* the calls of readName return, innermost first: the name is the tokens   *)
(* joined plus a dot; readNameFromOffset puts the cursor back and pops the *)
(* offset, and its caller appends the name without its last dot and breaks *)
RECURSIVE Unwind(_, _, _)
Unwind(names, r, name) ==
    IF Len(names) = 1 THEN [name |-> name, r |-> r]
    ELSE LET inner == names[Len(names)]
             outer == names[Len(names) - 1]
             tokens == Append(outer.tokens, TrimSuffix(name))
         IN Unwind(SubSeq(names, 1, Len(names) - 2) \o <<[outer EXCEPT !.tokens = tokens]>>,
                   [r EXCEPT !.pos = inner.startPos,
                             !.offsetStack = SubSeq(@, 1, Len(@) - 1)],
                   Join(tokens) \o <<Dot>>)

(* mutant: readNameFromOffset neither looks at the offset stack nor pushes *)
readNameNoStack ==
    /\ parse.pc = "name"
    /\ LET lead == readByte(reader)
           top == parse.names[Len(parse.names)]
       IN IF ~lead.ok
          THEN Fails("bounds") /\ reader' = reader
          ELSE IF reader.parseStatus = parsingResourceRecords
                  /\ BitAnd(lead.val, PointerMask) = PointerMask
          THEN LET off2 == readByte(lead.r)
                   offset == BitOr(BitAnd(lead.val, OffsetMask) * 256, off2.val)
               IN IF ~off2.ok
                  THEN Fails("bounds") /\ reader' = lead.r
                  ELSE /\ reader' = [off2.r EXCEPT !.pos = offset]
                       /\ parse' = [parse EXCEPT !.names = Append(@, NameCall(off2.r.pos))]
          ELSE IF lead.val = 0
          THEN LET done == Unwind(parse.names, lead.r,
                                  Join(top.tokens) \o <<Dot>>)
               IN /\ reader' = done.r
                  /\ parse' = [parse EXCEPT !.pc = parse.ret, !.names = <<>>,
                                            !.name = done.name]
          ELSE LET token == readBytes(lead.r, lead.val)
               IN IF ~token.ok
                  THEN Fails("name") /\ reader' = lead.r
                  ELSE /\ reader' = token.r
                       /\ parse' = [parse EXCEPT
                              !.names[Len(parse.names)].tokens = Append(@, token.val)]
    /\ UNCHANGED <<now, records, scheduled, cvars, rvars, writer, wrote, server>>

(* readName, one turn of the loop of the innermost call: a pointer (only   *)
(* while parsing resource records) enters readNameFromOffset, a zero octet *)
(* ends the name, any other octet is the length of a label                 *)
readName ==
    /\ parse.pc = "name"
    /\ LET lead == readByte(reader)
           top == parse.names[Len(parse.names)]
       IN IF ~lead.ok
          THEN Fails("bounds") /\ reader' = reader
          ELSE IF reader.parseStatus = parsingResourceRecords
                  /\ BitAnd(lead.val, PointerMask) = PointerMask
          THEN LET off2 == readByte(lead.r)
                   offset == BitOr(BitAnd(lead.val, OffsetMask) * 256, off2.val)
               IN IF ~off2.ok
                  THEN Fails("bounds") /\ reader' = lead.r
                  ELSE IF \E j \in 1..Len(reader.offsetStack) : reader.offsetStack[j] = offset
                  THEN Fails("cyclic") /\ reader' = off2.r
                  ELSE /\ reader' = [off2.r EXCEPT !.pos = offset,
                                                   !.offsetStack = Append(@, offset)]
                       /\ parse' = [parse EXCEPT !.names = Append(@, NameCall(off2.r.pos))]
          ELSE IF lead.val = 0
          THEN LET done == Unwind(parse.names, lead.r,
                                  Join(top.tokens) \o <<Dot>>)
               IN /\ reader' = done.r
                  /\ parse' = [parse EXCEPT !.pc = parse.ret, !.names = <<>>,
                                            !.name = done.name]
          ELSE LET token == readBytes(lead.r, lead.val)
               IN IF ~token.ok
                  THEN Fails("name") /\ reader' = lead.r
                  ELSE /\ reader' = token.r
                       /\ parse' = [parse EXCEPT
                              !.names[Len(parse.names)].tokens = Append(@, token.val)]
    /\ UNCHANGED <<now, records, scheduled, cvars, rvars, writer, wrote, server>>

(* the rest of a question: QType and QClass *)
parseQuestionFixed ==
    /\ parse.pc = "qfixed"
    /\ LET t == readUint16(reader)
           c == readUint16(t.r)
       IN IF ~t.ok \/ ~c.ok
          THEN Fails("bounds") /\ reader' = reader
          ELSE /\ reader' = c.r
               /\ parse' = [parse EXCEPT
                      !.pc = "question", !.i = @ + 1,
                      !.m.Questions = Append(@, DNSQuestion(parse.name, t.val, c.val))]
    /\ UNCHANGED <<now, records, scheduled, cvars, rvars, writer, wrote, server>>

(* parseDNSResourceRecord, the head of its loop, for the three sections in *)
(* turn: the next owner name, the next section, or the end of the message  *)
parseDNSResourceRecord ==
    /\ parse.pc = "rr"
    /\ reader' = reader
    /\ IF parse.i < SectionCount(parse.m.Header, parse.sect)
       THEN parse' = CallReadName("rrfixed")
       ELSE IF parse.sect < 3
       THEN parse' = [parse EXCEPT !.sect = @ + 1, !.i = 0]
       ELSE parse' = Returns(TRUE, parse.m, None)
    /\ UNCHANGED <<now, records, scheduled, cvars, rvars, writer, wrote, server>>

(* mutant: the cursor advance is not compared with RDLength *)
FinishRDataUnchecked(r, rr, startPos, rdata) ==
    LET advances == Append(parse.advances, [RDLength |-> rr.RDLength,
                                            advance |-> r.pos - startPos])
        rec == ResourceRecord(rr.Name, rr.Type, rr.Class, rr.TTL, rr.RDLength, rdata)
    IN [parse EXCEPT !.pc = "rr", !.i = @ + 1, !.advances = advances,
                     !.m[Sections[parse.sect]] = Append(@, rec)]

(* the end of parseRData: the cursor must have advanced by RDLength; then  *)
(* the record is stored in its section                                     *)
FinishRData(r, rr, startPos, rdata) ==
    LET advances == Append(parse.advances, [RDLength |-> rr.RDLength,
                                            advance |-> r.pos - startPos])
        rec == ResourceRecord(rr.Name, rr.Type, rr.Class, rr.TTL, rr.RDLength, rdata)
    IN IF r.pos - startPos # rr.RDLength
       THEN [Returns(FALSE, EmptyMessage, "rdlength") EXCEPT !.advances = advances]
       ELSE [parse EXCEPT !.pc = "rr", !.i = @ + 1, !.advances = advances,
                          !.m[Sections[parse.sect]] = Append(@, rec)]

(* the fixed part of a record (Type, Class, TTL, RDLength) and parseRData  *)
(* up to the domain name in the RDATA, if the type has one                 *)
parseRecordFixed ==
    /\ parse.pc = "rrfixed"
    /\ LET t == readUint16(reader)
           c == readUint16(t.r)
           ttl == readUint32(c.r)
           len == readUint16(ttl.r)
           rr == [Name |-> parse.name, Type |-> t.val, Class |-> c.val,
                  TTL |-> ttl.val, RDLength |-> len.val, Preference |-> 0]
           startPos == len.r.pos
       IN IF ~t.ok \/ ~c.ok \/ ~ttl.ok \/ ~len.ok
          THEN Fails("bounds") /\ reader' = reader
          ELSE CASE t.val = RTA ->
                      LET ip == readIP(len.r)
                      IN IF ~ip.ok THEN Fails("bounds") /\ reader' = len.r
                         ELSE /\ reader' = ip.r
                              /\ parse' = FinishRData(ip.r, rr, startPos, ARecord(ip.val))
                 [] t.val = RTTXT ->
                      LET txt == parseTXTLoop(len.r, startPos + len.val, <<>>)
                      IN IF ~txt.ok THEN Fails("bounds") /\ reader' = len.r
                         ELSE /\ reader' = txt.r
                              /\ parse' = FinishRData(txt.r, rr, startPos, TXTRecord(txt.val))
                 [] t.val = RTAAAA ->
                      LET ip == readIPv6(len.r)
                      IN IF ~ip.ok THEN Fails("bounds") /\ reader' = len.r
                         ELSE /\ reader' = ip.r
                              /\ parse' = FinishRData(ip.r, rr, startPos, AAAARecord(ip.val))
                 [] t.val \in {RTNS, RTCNAME} ->
                      /\ reader' = len.r
                      /\ parse' = [CallReadName("rdata") EXCEPT
                                      !.rr = rr, !.startPos = startPos]
                 [] t.val = RTMX ->
                      LET pref == readUint16(len.r)
                      IN IF ~pref.ok THEN Fails("bounds") /\ reader' = len.r
                         ELSE /\ reader' = pref.r
                              /\ parse' = [CallReadName("rdata") EXCEPT
                                     !.rr = [rr EXCEPT !.Preference = pref.val],
                                     !.startPos = startPos]
                 [] OTHER -> Fails("type") /\ reader' = len.r
    /\ UNCHANGED <<now, records, scheduled, cvars, rvars, writer, wrote, server>>

(* parseRData after the domain name of an NS, CNAME or MX record *)
parseRData ==
    /\ parse.pc = "rdata"
    /\ reader' = reader
    /\ LET rr == parse.rr
           rdata == CASE rr.Type = RTNS -> NSRecord(parse.name)
                      [] rr.Type = RTCNAME -> CNameRecord(parse.name)
                      [] rr.Type = RTMX -> MXRecord(rr.Preference, parse.name)
       IN parse' = FinishRData(reader, rr, parse.startPos, rdata)
    /\ UNCHANGED <<now, records, scheduled, cvars, rvars, writer, wrote, server>>

----------------------------------------------------------------------------
(* The buffers handed to ParseDNSMessage                                   *)

MaxCount == 1
MaxName == 4
MaxRDLength == 6
MaxRecords == 2

(* no message: the buffer was not made by the serializer *)
NoMessage == [none |-> TRUE]

(* n octets b *)
Fill(n, b) == [i \in 1..n |-> b]

RECURSIVE Octets(_, _)
Octets(n, alphabet) ==
    IF n = 0 THEN {<<>>}
    ELSE {<<b>> \o v : b \in alphabet, v \in Octets(n - 1, alphabet)}

Encoded(h) == serializeDNSHeader(NewWriter, h).data

(* "a." and "b." and "b.a." and "x" *)
NameA == <<97, Dot>>
NameB == <<98, Dot>>
NameBA == <<98, Dot, 97, Dot>>
TextX == <<120>>
QuestionA == DNSQuestion(NameA, RTA, RCIN)
IPv4 == <<1, 2, 3, 4>>

(* the question a. A IN, and an A record of a.; every TTL of a buffer is   *)
(* below 2^31                                                              *)
WireQuestionA == <<1, 97, 0, 0, 1, 0, 1>>
WireAnswerA == <<1, 97, 0, 0, 1, 0, 1, 0, 0, 0, 0, 0, 4>> \o IPv4

(* headers: every condition of validateHeader on and off *)
HeaderFlags ==
    {0, QRMask, AAMask, RAMask, 16, 1, OpcodeMask, TCMask, RDMask,
     2048 + TCMask + RDMask, QRMask + AAMask + RAMask, QRMask + RDMask + RAMask, 65535}
Headers ==
    {DNSHeader(id, f, qd, an, ns, ar) :
        id \in {0, 4660}, f \in HeaderFlags,
        qd \in 0..MaxCount, an \in 0..MaxCount, ns \in 0..MaxCount, ar \in 0..MaxCount}
HeaderInputs ==
    {[query |-> Encoded(h) \o WireQuestionA \o WireAnswerA, mode |-> mode, orig |-> NoMessage] :
        h \in Headers, mode \in {Query, Response}}

(* names: every string of MaxName octets where a name is expected, in the  *)
(* question of a query and, at offset 19, in the owner name of an answer;  *)
(* behind it a zero octet and the fixed part of an A record.  The types    *)
(* these octets can spell are A and types ParseDNSMessage has no case for. *)
NameOctets == {0, 1, 19, 20, 21, 192}
NameInputs ==
    {[query |-> Encoded(DNSHeader(0, 0, 1, 0, 0, 0)) \o v \o <<0, 0, 1, 0, 1>>,
      mode |-> Query, orig |-> NoMessage] : v \in Octets(MaxName, NameOctets)}
    \cup
    {[query |-> Encoded(DNSHeader(0, QRMask, 1, 1, 0, 0)) \o WireQuestionA \o v
                    \o <<0, 0, 1, 0, 1, 0, 0, 0, 0, 0, 4>> \o IPv4,
      mode |-> Response, orig |-> NoMessage] : v \in Octets(MaxName, NameOctets)}

(* a question name that begins with the octet 0xC0 and has 192 octets      *)
(* behind it                                                               *)
LongPointerQuery ==
    Encoded(DNSHeader(0, 0, 1, 0, 0, 0)) \o <<192>> \o Fill(192, 97) \o <<0, 0, 1, 0, 1>>
(* names that begin with an octet whose top two bits are 01 (64, in the   *)
(* question of a query) and 10 (128, in the owner name of an answer), with *)
(* that many octets behind it                                               *)
ReservedLeadQuery ==
    Encoded(DNSHeader(0, 0, 1, 0, 0, 0)) \o <<64>> \o Fill(64, 97) \o <<0, 0, 1, 0, 1>>
ReservedLeadResponse ==
    Encoded(DNSHeader(0, QRMask, 1, 1, 0, 0)) \o WireQuestionA
        \o <<128>> \o Fill(128, 97) \o <<0, 0, 1, 0, 1, 0, 0, 0, 0, 0, 4>> \o IPv4
PointerInputs ==
    {[query |-> LongPointerQuery, mode |-> Query, orig |-> NoMessage],
     [query |-> ReservedLeadQuery, mode |-> Query, orig |-> NoMessage],
     [query |-> ReservedLeadResponse, mode |-> Response, orig |-> NoMessage],
     [query |-> Encoded(DNSHeader(0, 0, 1, 0, 0, 0)) \o <<192, 12, 0, 1, 0, 1>>,
      mode |-> Query, orig |-> NoMessage]}

(* records: one answer of every type of the model and of a type without a  *)
(* case (99), its RDATA fixed, its RDLength anything up to MaxRDLength     *)
WireRData ==
    {[type |-> RTA, rdata |-> IPv4],
     [type |-> RTNS, rdata |-> <<1, 98, 192, 12>>],
     [type |-> RTCNAME, rdata |-> <<192, 12>>],
     [type |-> RTMX, rdata |-> <<0, 10, 1, 98, 192, 12>>],
     [type |-> RTTXT, rdata |-> <<1, 120, 2, 121, 122>>],
     [type |-> RTTXT, rdata |-> <<0, 1, 120>>],
     [type |-> RTAAAA, rdata |-> Fill(16, 1)],
     [type |-> 99, rdata |-> IPv4]}
RDataInputs ==
    {[query |-> Encoded(DNSHeader(0, QRMask, 1, 1, 0, 0)) \o WireQuestionA
                    \o <<192, 12>> \o PutUint16(w.type) \o <<0, 1, 0, 0, 0, 0>>
                    \o PutUint16(len) \o w.rdata \o <<0, 0>>,
      mode |-> Response, orig |-> NoMessage] : w \in WireRData, len \in 0..MaxRDLength}

(* messages to serialize and parse back: the question a. A IN and up to    *)
(* MaxRecords records of a. in one section, the RDLength of each the       *)
(* number of octets its RDATA takes when it is the first record encoded    *)
WellFormedRecords ==
    {ResourceRecord(NameA, RTA, RCIN, 1, 4, ARecord(IPv4)),
     ResourceRecord(NameA, RTNS, RCIN, 1, 4, NSRecord(NameBA)),
     ResourceRecord(NameA, RTCNAME, RCIN, 1, 2, CNameRecord(NameA)),
     ResourceRecord(NameA, RTMX, RCIN, 1, 5, MXRecord(10, NameB)),
     ResourceRecord(NameA, RTTXT, RCIN, 1, 2, TXTRecord(<<TextX>>)),
     ResourceRecord(NameA, RTAAAA, RCIN, 1, 16, AAAARecord(Fill(16, 1)))}
RecordLists ==
    UNION {[1..n -> WellFormedRecords] : n \in 0..MaxRecords}
Messages ==
    {WireMessage(DNSHeader(id, QRMask + RAMask, 1, Len(rrs), 0, 0),
                 <<QuestionA>>, rrs, <<>>, <<>>) : id \in {0, 4660}, rrs \in RecordLists}
    \cup {WireMessage(DNSHeader(0, QRMask, 1, 0, Len(rrs), 0),
                      <<QuestionA>>, <<>>, rrs, <<>>) : rrs \in RecordLists}
    \cup {WireMessage(DNSHeader(0, QRMask, 1, 0, 0, Len(rrs)),
                      <<QuestionA>>, <<>>, <<>>, rrs) : rrs \in RecordLists}
RoundTripInputs ==
    {[query |-> SerializeDNSMessage(m), mode |-> Response, orig |-> m] : m \in Messages}

ParserInputs == HeaderInputs \cup NameInputs \cup PointerInputs \cup RDataInputs
                    \cup RoundTripInputs

(* ParseDNSMessage is called on one of the buffers *)
ParseDNSMessage ==
    /\ parse.pc = "idle"
    /\ \E in \in ParserInputs : ParseCall(in.query, in.mode, in.orig)

ParserNext ==
    \/ ParseDNSMessage
    \/ parseDNSHeader
    \/ parseDNSQuestion
    \/ readName
    \/ parseQuestionFixed
    \/ parseDNSResourceRecord
    \/ parseRecordFixed
    \/ parseRData
    \/ ParseReturn

ParserSpec == Init /\ [][ParserNext]_vars

(* readName is a loop of sequential code: while it has a next turn it     *)
(* takes it                                                                *)
ParserRuns == WF_vars(readName)
FairParserSpec == ParserSpec /\ ParserRuns

----------------------------------------------------------------------------
(* The serializer at work: names written one after the other into one      *)
(* message, the queries of resolveOnce and the answers of the server        *)

MaxNames == 3
MaxAnswers == 3

(* "example.com." and the names written: the root, with and without the    *)
(* last dot, and names that share a suffix                                  *)
ExampleCom == <<101, 120, 97, 109, 112, 108, 101, Dot, 99, 111, 109, Dot>>
Names == {<<Dot>>, NameA, NameBA, <<97>>, <<98, Dot, 97>>, ExampleCom}

(* SerializeDNSMessage begins with a new dnsWriter *)
NewSerializer ==
    /\ wrote # <<>>
    /\ writer' = NewWriter
    /\ wrote' = <<>>
    /\ UNCHANGED <<now, records, scheduled, cvars, rvars, reader, parse, server>>

(* s.writeName(v); wrote keeps v and where its octets begin *)
WriteName(v) ==
    /\ Len(wrote) < MaxNames
    /\ \A i \in 1..Len(wrote) : wrote[i].op = "writeName"
    /\ writer' = writeName(writer, v)
    /\ wrote' = Append(wrote, [op |-> "writeName", v |-> v, from |-> Len(writer.data)])
    /\ UNCHANGED <<now, records, scheduled, cvars, rvars, reader, parse, server>>

(* resolveOnce: q := parser.CreateQuery(domain, qtype, qclass), with the ID *)
(* generateID drew                                                          *)
CreateQueryCall(id, domain) ==
    /\ wrote = <<>>
    /\ writer' = [NewWriter EXCEPT !.data = CreateQuery(id, domain, RTA, RCIN)]
    /\ wrote' = <<[op |-> "CreateQuery", v |-> domain, from |-> 0]>>
    /\ UNCHANGED <<now, records, scheduled, cvars, rvars, reader, parse, server>>

(* main: the query a. TXT IN of a client, for which Resolve returned n TXT  *)
(* records of one 200-octet string each, is answered: ResolveQuery makes   *)
(* the message with CreateAnswerMessage, SerializeDNSMessage encodes it,   *)
(* WriteToUDP sends it                                                     *)
Respond(id, n) ==
    /\ wrote = <<>>
    /\ LET q == WireMessage(DNSHeader(id, 0, 1, 0, 0, 0),
                            <<DNSQuestion(NameA, RTTXT, RCIN)>>, <<>>, <<>>, <<>>)
           answers == [i \in 1..n |-> ResourceRecord(NameA, RTTXT, RCIN, 1, 201,
                                                     TXTRecord(<<Fill(200, 120)>>))]
           ans == CreateAnswerMessage(q, answers)
       IN writer' = Serializer(ans)
    /\ wrote' = <<[op |-> "WriteToUDP", v |-> NameA, from |-> 0]>>
    /\ UNCHANGED <<now, records, scheduled, cvars, rvars, reader, parse, server>>

SerializerNext ==
    \/ NewSerializer
    \/ \E v \in Names : WriteName(v)
    \/ \E id \in {0, 4660}, domain \in Names : CreateQueryCall(id, domain)
    \/ \E id \in {0, 4660}, n \in 0..MaxAnswers : Respond(id, n)

SerializerSpec == Init /\ [][SerializerNext]_vars

----------------------------------------------------------------------------
(* The server (main): one datagram after the other is parsed as a Query,   *)
(* resolved and answered.  server keeps what the last turn of the loop     *)
(* made of its datagram.                                                    *)

(* getErrorResponse: the octets to send, or nil *)
getErrorResponse(err) ==
    IF As(err)
        THEN [nil |-> FALSE, r |-> SerializeDNSMessage(CreateErrorResponseMessage(err))]
        ELSE [nil |-> TRUE, r |-> <<>>]

(* what Resolve returns for one question: records or an error *)
Resolved(val) == [ok |-> TRUE, val |-> val, err |-> NilError]
ResolveFailed(err) == [ok |-> FALSE, val |-> <<>>, err |-> err]

(* ResolveQuery(q), outs[i] being what Resolve returns for question i;     *)
(* answers is history, the list given to CreateAnswerMessage                *)
RECURSIVE ResolveQueryLoop(_, _, _, _)
ResolveQueryLoop(q, outs, i, answers) ==
    IF i > Len(q.Questions) THEN [ok |-> TRUE, m |-> CreateAnswerMessage(q, answers),
                                  err |-> NilError, answers |-> answers]
    ELSE IF ~outs[i].ok THEN [ok |-> FALSE, m |-> EmptyMessage, err |-> outs[i].err,
                              answers |-> <<>>]
    ELSE ResolveQueryLoop(q, outs, i + 1, answers \o outs[i].val)
ResolveQuery(q, outs) == ResolveQueryLoop(q, outs, 1, <<>>)

(* the datagrams of the clients: headers with every flag word of the       *)
(* parser's inputs before a question and a record, and datagrams that end  *)
(* within the header                                                        *)
Datagrams ==
    {Encoded(DNSHeader(id, f, qd, an, 0, 0)) \o WireQuestionA \o WireAnswerA :
        id \in {0, 4660}, f \in HeaderFlags, qd \in 0..MaxCount, an \in 0..1}
    \cup {Encoded(DNSHeader(4660, 0, 1, 0, 1, 0)) \o WireQuestionA \o WireAnswerA,
          Encoded(DNSHeader(4660, 0, 1, 0, 0, 1)) \o WireQuestionA \o WireAnswerA,
          <<>>, <<18>>, <<18, 52, 1>>}

(* what Resolve may return: one to MaxRecords records of the types A,     *)
(* CNAME and TXT, or one of its errors                                     *)
ResolveOutcomes ==
    {Resolved(rrs) : rrs \in {l \in RecordLists :
        l # <<>> /\ \A i \in 1..Len(l) : l[i].Type \in {RTA, RTCNAME, RTTXT}}}
        \cup {ResolveFailed(New("Could not resolve any authorities")),
              ResolveFailed(New("Invalid Header"))}

(* n, clientAddr, _ := conn.ReadFromUDP(buf); ParseDNSMessage(buf[:n], Query) *)
ReadFromUDP ==
    /\ parse.pc = "idle"
    /\ \E d \in Datagrams : Begin(d, Query, NoMessage)
    /\ server' = NoServer
    /\ UNCHANGED <<now, records, scheduled, cvars, rvars, writer, wrote>>

(* the rest of the turn once ParseDNSMessage has returned: the error       *)
(* branch, or ResolveQuery and its error branch or the answer; then        *)
(* continue                                                                 *)
Turn(outs) ==
    LET perr == New(parse.cause)
        res == ResolveQuery(parse.m, outs)
        err == IF ~parse.ok THEN perr ELSE res.err
        failed == ~parse.ok \/ ~res.ok
        r == getErrorResponse(err)
    IN  [in |-> reader.data, turns |-> 1,
         parsed |-> parse.ok, q |-> parse.m,
         resolved |-> parse.ok /\ res.ok,
         answers |-> IF failed THEN <<>> ELSE res.answers,
         ans |-> IF failed THEN EmptyMessage ELSE res.m,
         err |-> IF failed THEN err ELSE NilError,
         replied |-> IF failed THEN ~r.nil ELSE TRUE,
         sent |-> IF failed THEN r.r ELSE SerializeDNSMessage(res.m)]

Serve ==
    /\ parse.pc = "done"
    /\ \E outs \in [1..Len(parse.m.Questions) -> ResolveOutcomes] : server' = Turn(outs)
    /\ parse' = NoParse
    /\ reader' = NoReader
    /\ UNCHANGED <<now, records, scheduled, cvars, rvars, writer, wrote>>

ServerNext ==
    \/ ReadFromUDP
    \/ parseDNSHeader
    \/ parseDNSQuestion
    \/ readName
    \/ parseQuestionFixed
    \/ Serve

ServerSpec == Init /\ [][ServerNext]_vars

----------------------------------------------------------------------------
(* Properties of the parser                                                *)

(* the header on the wire, read field by field and bit by bit, of the      *)
(* buffer the running or finished call of ParseDNSMessage was given        *)
WireField(n) == reader.data[2 * n + 1] * 256 + reader.data[2 * n + 2]
WireBit(n) == (WireField(1) \div n) % 2
HeaderRead == parse.pc \notin {"idle", "header"} /\ Len(reader.data) >= 12
HeaderAccepted == HeaderRead /\ (parse.pc = "done" => parse.at # "header")
HeaderRejected ==
    /\ HeaderRead /\ parse.pc = "done" /\ parse.at = "header"
    /\ ~parse.ok /\ parse.m = EmptyMessage
Succeeded == parse.pc = "done" /\ parse.ok
Errored == parse.pc = "done" /\ ~parse.ok /\ parse.m = EmptyMessage

(* C13: in the Query role ParseDNSMessage accepts a header exactly when    *)
(* QR = 0, AA = 0, RA = 0, Z = 0, RCode = 0, QDCount >= 1 and ANCount =     *)
(* NSCount = ARCount = 0, whatever ID, Opcode, TC and RD are; a header     *)
(* that breaks one of the conditions makes it return an error and no       *)
(* message.                                                                *)
C13_Conditions ==
    /\ WireBit(32768) = 0 /\ WireBit(1024) = 0 /\ WireBit(128) = 0
    /\ (WireField(1) \div 16) % 8 = 0
    /\ WireField(1) % 16 = 0
    /\ WireField(2) >= 1
    /\ WireField(3) = 0 /\ WireField(4) = 0 /\ WireField(5) = 0
C13_QueryHeader ==
    (HeaderRead /\ parse.mode = Query) =>
        /\ HeaderAccepted <=> C13_Conditions
        /\ ~C13_Conditions => HeaderRejected
C13_Witness ==
    /\ Succeeded /\ parse.mode = Query
    /\ WireField(0) = 4660
    /\ WireField(1) = 2048 + 512 + 256
    /\ parse.m.Header = DNSHeader(4660, 2048 + 512 + 256, 1, 0, 0, 0)

Lead == reader.data[reader.pos + 1]
AtLead == parse.pc = "name" /\ reader.pos < Len(reader.data)
TopBits11(b) == b \div 64 = 3

(* C15: while the decoder is in the question phase, a leading octet of a   *)
(* name whose top two bits are 11 makes decoding fail, for every message   *)
(* whatever its length; pointers are followed only in the resource-record  *)
(* phase.                                                                  *)
C15_QuestionStep ==
    /\ (AtLead /\ reader.parseStatus = parsingQuestion /\ TopBits11(Lead))
          => (parse'.pc = "done" /\ ~parse'.ok)
    /\ (AtLead /\ Len(reader'.offsetStack) > Len(reader.offsetStack))
          => reader.parseStatus = parsingResourceRecords
C15_QuestionPointerFails == [][C15_QuestionStep]_vars

(* C16: name decoding terminates on every buffer: a followed pointer       *)
(* pushes its target on the offset stack, a pointer whose target is on the *)
(* stack already (a pointer to itself included) fails the decode with the  *)
(* cyclic-name error, and the targets are popped when the name returns, so *)
(* no chain of pointers is followed for ever.                              *)
NoDuplicates(stk) == \A i, j \in 1..Len(stk) : stk[i] = stk[j] => i = j
Target == (Lead % 64) * 256 + reader.data[reader.pos + 2]
AtPointer ==
    /\ AtLead /\ reader.parseStatus = parsingResourceRecords
    /\ TopBits11(Lead) /\ reader.pos + 1 < Len(reader.data)
C16_Stack ==
    /\ NoDuplicates(reader.offsetStack)
    /\ parse.pc = "name" => Len(reader.offsetStack) = Len(parse.names) - 1
    /\ parse.pc \in {"question", "qfixed", "rr", "rrfixed", "rdata"}
          => reader.offsetStack = <<>>
    /\ Succeeded => reader.offsetStack = <<>>
C16_PointerStep ==
    AtPointer =>
        IF \E i \in 1..Len(reader.offsetStack) : reader.offsetStack[i] = Target
        THEN parse'.pc = "done" /\ ~parse'.ok /\ parse'.cause = "cyclic"
        ELSE /\ reader'.offsetStack = Append(reader.offsetStack, Target)
             /\ reader'.pos = Target
             /\ parse'.pc = "name"
C16_NameDecodingTerminates ==
    /\ [](C16_Stack)
    /\ [][C16_PointerStep]_vars
    /\ (parse.pc = "name" ~> parse.pc # "name")
C16_Witness ==
    /\ parse.pc = "done" /\ ~parse.ok /\ parse.cause = "cyclic"
    /\ reader.offsetStack = <<21, 19>>

(* C17: for every record of a successfully decoded message the cursor     *)
(* advance over its RDATA, a followed pointer counting as its two octets,  *)
(* equals the declared RDLength; when the decode of the RDATA consumes     *)
(* more or fewer octets than RDLength, ParseDNSMessage fails and returns   *)
(* no message.                                                             *)
Decoded == parse.m.Answers \o parse.m.Authorities \o parse.m.Additionals
C17_RDLengthMatches ==
    parse.pc # "idle" =>
        /\ \A i \in 1..Len(parse.advances) :
              parse.advances[i].advance # parse.advances[i].RDLength
                 => Errored /\ parse.at \in {"rrfixed", "rdata"} /\ i = Len(parse.advances)
        /\ Succeeded =>
              /\ Len(parse.advances) = Len(Decoded)
              /\ \A i \in 1..Len(Decoded) :
                    /\ parse.advances[i].RDLength = Decoded[i].RDLength
                    /\ parse.advances[i].advance = Decoded[i].RDLength
C17_Witness ==
    /\ Succeeded /\ parse.mode = Response
    /\ Len(parse.m.Answers) = 1
    /\ parse.m.Answers[1].RData = MXRecord(10, NameBA)
    /\ parse.advances = <<[RDLength |-> 6, advance |-> 6]>>

(* C18: round trip: for every well-formed message M of the bounded set,    *)
(* ParseDNSMessage(SerializeDNSMessage(M), Response) succeeds and yields   *)
(* the header flags, the questions and, for every record, the Name, Type,  *)
(* Class, TTL and RData of M, also when names inside RDATA were            *)
(* compressed.                                                             *)
Serialized == parse.pc = "done" /\ "Header" \in DOMAIN parse.orig
SameRecord(a, b) ==
    /\ a.Name = b.Name /\ a.Type = b.Type /\ a.Class = b.Class
    /\ a.TTL = b.TTL /\ a.RData = b.RData
SameRecords(as, bs) ==
    Len(as) = Len(bs) /\ \A i \in 1..Len(as) : SameRecord(as[i], bs[i])
C18_RoundTrip ==
    Serialized =>
        /\ parse.ok
        /\ parse.m.Header.flags = parse.orig.Header.flags
        /\ parse.m.Questions = parse.orig.Questions
        /\ SameRecords(parse.m.Answers, parse.orig.Answers)
        /\ SameRecords(parse.m.Authorities, parse.orig.Authorities)
        /\ SameRecords(parse.m.Additionals, parse.orig.Additionals)

----------------------------------------------------------------------------
(* Properties of the serializer                                            *)

(* the octets the i-th writeName of the message wrote *)
Written(i) ==
    SubSeq(writer.data, wrote[i].from + 1,
           IF i < Len(wrote) THEN wrote[i + 1].from ELSE Len(writer.data))

(* labels, then one terminator and nothing behind it: a zero octet or a    *)
(* pointer of two octets                                                   *)
RECURSIVE OneTerminator(_)
OneTerminator(octets) ==
    IF octets = <<>> THEN FALSE
    ELSE IF octets[1] = 0 THEN Len(octets) = 1
    ELSE IF TopBits11(octets[1]) THEN Len(octets) = 2
    ELSE Len(octets) > octets[1]
         /\ OneTerminator(SubSeq(octets, octets[1] + 2, Len(octets)))

ScenarioS1 ==
    <<0, 0, 0, 0, 0, 1, 0, 0, 0, 0, 0, 0,
      7, 101, 120, 97, 109, 112, 108, 101, 3, 99, 111, 109, 0, 0, 1, 0, 1>>

(* C19: writeName ends every encoded name with exactly one terminator, a   *)
(* single zero octet or a single pointer to an earlier identical suffix,   *)
(* for names with and without the last dot; the root name "." encodes as   *)
(* exactly one zero octet, and an A/IN query for "example.com." encodes to *)
(* the 29 octets of scenario S1.                                           *)
C19_OneTerminator ==
    /\ \A i \in 1..Len(wrote) :
          wrote[i].op = "writeName" =>
             /\ OneTerminator(Written(i))
             /\ wrote[i].v = <<Dot>> => Written(i) = <<0>>
    /\ (wrote # <<>> /\ wrote[1].op = "CreateQuery" /\ wrote[1].v = ExampleCom
           /\ writer.data[1] = 0 /\ writer.data[2] = 0)
          => writer.data = ScenarioS1

(* C20: every message produced for UDP, the answer sent back to a client   *)
(* and the query sent upstream, has an encoded length of at most 512       *)
(* octets, for any number of answer records.                               *)
C20_AtMost512 ==
    (wrote # <<>> /\ wrote[1].op \in {"WriteToUDP", "CreateQuery"})
        => Len(writer.data) <= 512

----------------------------------------------------------------------------
(* Properties of the cache                                                 *)

Range(list) == {list[i] : i \in 1..Len(list)}
Count(list, e) == Cardinality({i \in 1..Len(list) : list[i] = e})
RecordsOf(list) == [i \in 1..Len(list) |-> list[i].record]

(* what a Get(k) that runs alone in the current state returns *)
GetNow(k) ==
    IF k \in DOMAIN records
    THEN LET r == getLiveResourceRecords(records[k], now)
         IN [result |-> r.result, found |-> Len(r.result) > 0]
    ELSE [result |-> <<>>, found |-> FALSE]

(* C1: in every reachable state Get(k) returns exactly the records Added   *)
(* under k whose expiry (Add time + TTL) is still in the future, one per   *)
(* Add and in Add order, and found says whether there is one; so a record  *)
(* just Added with TTL > 0 is returned.                                    *)
C1_GetReturnsLiveAdded ==
    \A k \in CacheKeys :
        /\ GetNow(k).result = RecordsOf(added[k])
        /\ GetNow(k).found = (Len(added[k]) > 0)

(* two Adds of the same record under one key, both returned *)
C1_Witness ==
    \E k \in CacheKeys :
        /\ Len(added[k]) = 2
        /\ added[k][1] = added[k][2]
        /\ GetNow(k).found
        /\ Len(GetNow(k).result) = 2

(* C2: a Get that read the clock at t returns no record of an entry whose  *)
(* expiry is <= t, cleaned up or not; when every entry it read is expired  *)
(* (or the key is absent) it returns the empty list and found = FALSE; a   *)
(* record Added with TTL = 0 is never returned.                            *)
C2_GetNeverReturnsExpired ==
    \A p \in Workers :
        pc[p] = "get_done" =>
            LET r == ret[p]
                snap == IF r.ok THEN crrs[p] ELSE <<>>
                liveIdx == {j \in 1..Len(snap) : r.t < snap[j].expiry}
            IN /\ Len(r.result) = Cardinality(liveIdx)
               /\ \A i \in 1..Len(r.result) :
                     /\ r.result[i].TTL # 0
                     /\ \E j \in liveIdx : snap[j].record = r.result[i]
               /\ r.found = (liveIdx # {})
               /\ (liveIdx = {}) => (r.result = <<>> /\ ~r.found)

(* a Get returned a live record while an expired TTL = 0 entry it had read *)
(* is still in the map, and another Get found only expired entries         *)
C2_Witness ==
    \E p \in Workers :
        /\ pc[p] = "get_done"
        /\ ret[p].ok
        /\ ret[p].hasExpired
        /\ \E j \in 1..Len(crrs[p]) :
              /\ crrs[p][j].record.TTL = 0
              /\ crrs[p][j] \in Range(Lookup(records, ret[p].k))
        /\ \/ ret[p].found
           \/ Len(crrs[p]) = 2 /\ ~ret[p].found

(* C3: no live record is lost.  Every entry Added under k and not yet      *)
(* expired is in records[k], as often as it was Added, and no step takes   *)
(* an entry out of records[k] that is still live after the step: so        *)
(* ClearExpired removes only entries expired when it holds the write lock. *)
C3_LivePresent ==
    \A k \in CacheKeys :
        \A e \in Range(added[k]) : Count(Lookup(records, k), e) = Count(added[k], e)

C3_StepKeepsLive ==
    \A k \in CacheKeys :
        \A e \in Range(Lookup(records, k)) :
            now' < e.expiry => Count(Lookup(records', k), e) >= Count(records[k], e)

C3_NoLiveRecordLost == [](C3_LivePresent) /\ [][C3_StepKeepsLive]_vars

(* the race: a Get read k and saw an expired entry, an Add then appended a *)
(* live entry to k, and the cleanup that Get started has run: it removed   *)
(* the expired entry and kept the new one                                  *)
C3_Witness ==
    /\ ce.pc = "ce_unlock"
    /\ Len(ce.before) > Len(Lookup(records, ce.k))
    /\ \E p \in Workers :
          /\ pc[p] = "get_done"
          /\ ret[p].k = ce.k
          /\ ret[p].hasExpired
          /\ \E e \in Range(Lookup(records, ce.k)) :
                /\ now < e.expiry
                /\ Count(crrs[p], e) < Count(records[ce.k], e)

(* C4: a Get that sees an expired entry under k, and no other Get, starts  *)
(* a ClearExpired(k); when the cleanup has run, the list of k is exactly   *)
(* the entries that were live when it ran, and k is out of the map when    *)
(* there was none; so while a cleanup a Get started for k is outstanding,  *)
(* there comes a moment at which a cleanup of k has just run and k holds   *)
(* no expired entry.                                                       *)
C4_GetSchedules ==
    \A p \in Workers :
        (pc[p] = "get_filter" /\ pc'[p] = "get_done") =>
            LET k == arg[p].k
                sawExpired == \E e \in Range(crrs[p]) : e.expiry <= now
            IN /\ ret'[p].hasExpired = sawExpired
               /\ scheduled'[k] = scheduled[k] + (IF sawExpired THEN 1 ELSE 0)

C4_CleanupStoresLive ==
    ce.pc = "ce_unlock" =>
        LET Live(e) == ce.t < e.expiry
            live == SelectSeq(ce.before, Live)
        IN /\ Lookup(records, ce.k) = live
           /\ (ce.k \in DOMAIN records) = (live # <<>>)

NoExpired(k) == \A e \in Range(Lookup(records, k)) : now < e.expiry

SawExpired(k) ==
    \E p \in Workers : pc[p] = "get_done" /\ ret[p].k = k /\ ret[p].hasExpired

C4_CleanupAfterGet ==
    /\ [][C4_GetSchedules]_vars
    /\ [](C4_CleanupStoresLive)
    /\ \A k \in CacheKeys :
          (scheduled[k] > 0) ~> (ce.pc = "ce_unlock" /\ ce.k = k /\ NoExpired(k))

(* a cleanup has removed the last entry of a key and with it the key, and  *)
(* the Get that started it is still holding its result                     *)
C4_Witness ==
    /\ ce.pc = "ce_unlock"
    /\ ce.before # <<>>
    /\ ce.k \notin DOMAIN records
    /\ SawExpired(ce.k)

(* C5: at most one writer (Add or ClearExpired) is inside its critical     *)
(* section; no Get reads the map while one is; and a Get waiting in RLock  *)
(* can take the read lock whenever no writer is inside Lock, whoever       *)
(* holds the read lock already.                                            *)
Writers ==
    {p \in Workers : pc[p] = "add_cs"}
        \cup (IF ce.pc \in {"ce_cs", "ce_unlock"} THEN {Cleaner} ELSE {})
Readers == {p \in Workers : pc[p] = "get_read"}

C5_LockDiscipline ==
    /\ Cardinality(Writers) <= 1
    /\ Writers # {} => Readers = {}
    /\ Writers \subseteq {mu.w}
    /\ Readers = mu.readers
    /\ \A p \in Workers :
          (pc[p] = "get_rlock" /\ mu.w = None) => ENABLED GetRLock(p)

(* two Gets read the map at the same time, and a Get took the read lock    *)
(* while another held it                                                   *)
C5_Witness == Cardinality(Readers) = 2


----------------------------------------------------------------------------
(* Properties of the resolver                                              *)

(* the step of the innermost Resolve call that is at position p *)
StepAt(p) == stack # <<>> /\ Top.pc = p /\ stack' # stack

(* Resolve returned out: to the server loop, or to getAuthority, which     *)
(* goes on with the IP of one of the answers or with the next name         *)
Returned(out) ==
    IF Len(stack) = 1
    THEN stack' = <<>> /\ result' = out
    ELSE LET parent == stack[Len(stack) - 1]
             ips == {out.answers[i].RData.IP :
                       i \in {j \in 1..Len(out.answers) : out.answers[j].RData.kind = "ARecord"}}
         IN /\ Len(stack') = Len(stack) - 1
            /\ result' = result
            /\ \/ stack'[Len(stack')] = [parent EXCEPT !.pc = "auth"]
               \/ \E ip \in ips : stack'[Len(stack')] = [parent EXCEPT !.pc = "udp", !.ns = ip]

(* the live records under key k, read off the map without the cache's code *)
LiveUnder(k) ==
    IF k \in DOMAIN records
    THEN LET idx == {i \in 1..Len(records[k]) : now < records[k][i].expiry}
             Nth(n) == CHOOSE i \in idx : Cardinality({j \in idx : j < i}) = n - 1
         IN [n \in 1..Cardinality(idx) |-> records[k][Nth(n)].record]
    ELSE <<>>

(* C6: Resolve starts with the Get of (domain, qtype, qclass), before any  *)
(* nameserver is chosen.  When live records are cached under that key it   *)
(* returns exactly them, in order, sends no query and leaves the cache as  *)
(* it is; otherwise it goes on to a root server.                           *)
C6_FirstStep ==
    StepAt("start") =>
        LET live == LiveUnder(cacheKey(Top.domain, Top.qtype, Top.qclass))
        IN /\ Top.ns = None /\ Top.msg = None
           /\ trace' = trace /\ nSent' = nSent
           /\ records' = records
           /\ IF live # <<>>
              THEN Returned([status |-> "ok", answers |-> live, t |-> now])
              ELSE /\ Len(stack') = Len(stack)
                   /\ Top'.pc = "udp" /\ Top'.ns \in RootServers
                   /\ result' = result

C6_CacheHitReturnsLive == [][C6_FirstStep]_vars

(* a second Resolve answered from the cache, which holds a record more     *)
(* than the one returned and nothing was sent                              *)
C6_Witness ==
    /\ nRes = 2 /\ stack = <<>> /\ trace = <<>>
    /\ result.status = "ok" /\ result.answers # <<>>
    /\ nSent = 1


(* the entries a list of records adds under key k when it is cached under  *)
(* domain at time t                                                        *)
EntriesFor(list, domain, k, t) ==
    LET idx == {i \in 1..Len(list) : cacheKey(domain, list[i].Type, list[i].Class) = k}
        Nth(n) == CHOOSE i \in idx : Cardinality({j \in idx : j < i}) = n - 1
    IN [n \in 1..Cardinality(idx) |->
            [record |-> list[Nth(n)], expiry |-> t + list[Nth(n)].TTL]]

(* C7: when the response the loop holds has ANCount > 0, every record of   *)
(* its answer, authority and additional sections is appended, in that      *)
(* order, to the cache under (queried domain, record type, record class),  *)
(* nothing else in the cache changes, and Resolve returns that response's  *)
(* answers; a response with ANCount = 0 leaves the cache as it is.         *)
C7_ProcessStep ==
    StepAt("got") =>
        LET msg == Top.msg
            all == msg.Answers \o msg.Authorities \o msg.Additionals
        IN IF msg.Header.ANCount > 0
           THEN /\ \A k \in AllKeys :
                     /\ Lookup(records', k) =
                            Lookup(records, k) \o EntriesFor(all, Top.domain, k, now)
                     /\ k \in DOMAIN records' <=>
                            (k \in DOMAIN records \/ EntriesFor(all, Top.domain, k, now) # <<>>)
                /\ DOMAIN records' \subseteq AllKeys
                /\ Returned([status |-> "ok", answers |-> msg.Answers, t |-> now])
           ELSE records' = records

C7_AnswerIsCachedAndReturned == [][C7_ProcessStep]_vars

(* an answer with an authority and an additional record was returned and   *)
(* all three are in the cache under the queried name                       *)
C7_Witness ==
    /\ stack = <<>> /\ result.status = "ok"
    /\ Len(trace) = 1 /\ ~IsError(trace[1].outcome)
    /\ trace[1].outcome.Header.NSCount > 0 /\ trace[1].outcome.Header.ARCount > 0
    /\ result.answers = trace[1].outcome.Answers
    /\ cacheKey("example.com.", RTNS, RCIN) \in DOMAIN records
    /\ Len(Lookup(records, cacheKey("example.com.", RTA, RCIN))) = 2

Truncated(e) == ~IsError(e.outcome) /\ e.outcome.Header.TC
SameQuery(e, f) ==
    /\ e.ns = f.ns /\ e.domain = f.domain
    /\ e.qtype = f.qtype /\ e.qclass = f.qclass
LastSent == trace[Len(trace)]

(* C8: a query goes to the current nameserver of the loop, over UDP first. *)
(* A TCP query is sent only directly after a UDP query whose response had  *)
(* TC=1, to the same nameserver with the same question, so once per step   *)
(* at most; a truncated UDP response is followed by nothing else than that *)
(* TCP query; and the response the rest of the step works on is the one    *)
(* received last, the TCP response where there was one.                    *)
C8_TraceShape ==
    /\ \A i \in 1..Len(trace) :
          /\ trace[i].protocol = TCP =>
                /\ i > 1
                /\ trace[i-1].protocol = UDP
                /\ Truncated(trace[i-1])
                /\ SameQuery(trace[i], trace[i-1])
          /\ (trace[i].protocol = UDP /\ Truncated(trace[i]) /\ i < Len(trace)) =>
                trace[i+1].protocol = TCP
    /\ stack # <<>> =>
          /\ Top.pc = "tcp" =>
                /\ trace # <<>> /\ LastSent.protocol = UDP /\ Truncated(LastSent)
                /\ LastSent.ns = Top.ns /\ LastSent.domain = Top.domain
          /\ Top.pc = "got" =>
                /\ trace # <<>> /\ Top.msg = LastSent.outcome
                /\ LastSent.protocol = UDP => ~Truncated(LastSent)

C8_SendStep ==
    /\ nSent' # nSent =>
          /\ stack # <<>> /\ Top.pc \in {"udp", "tcp"}
          /\ trace' = Append(trace,
                 [protocol |-> IF Top.pc = "udp" THEN UDP ELSE TCP,
                  ns |-> Top.ns, domain |-> Top.domain,
                  qtype |-> Top.qtype, qclass |-> Top.qclass,
                  outcome |-> trace'[Len(trace')].outcome])
    /\ (StepAt("udp") \/ StepAt("tcp")) => nSent' = nSent + 1
    /\ (StepAt("got") /\ Len(stack) = 1 /\ LastSent.outcome.Header.ANCount > 0) =>
          result'.answers = LastSent.outcome.Answers

C8_TCPOnlyAfterTruncatedUDP == [](C8_TraceShape) /\ [][C8_SendStep]_vars

(* a truncated UDP response that carried an answer was replaced by a TCP   *)
(* response, and Resolve went on with the TCP response                     *)
C8_Witness ==
    /\ Len(stack) = 1 /\ Top.pc = "got"
    /\ Len(trace) = 2 /\ trace[2].protocol = TCP
    /\ trace[1].outcome.Header.ANCount > 0
    /\ Top.msg = trace[2].outcome /\ Top.msg # trace[1].outcome

(* the IPs of the A records of a response's additional section *)
AdditionalAIPs(msg) ==
    {msg.Additionals[i].RData.IP :
        i \in {j \in 1..Len(msg.Additionals) : msg.Additionals[j].RData.kind = "ARecord"}}

GlueReferral(e) ==
    /\ ~IsError(e.outcome) /\ ~e.outcome.Header.TC
    /\ e.outcome.Header.ANCount = 0
    /\ AdditionalAIPs(e.outcome) # {}
Answer(e) ==
    /\ ~IsError(e.outcome) /\ ~e.outcome.Header.TC
    /\ e.outcome.Header.ANCount > 0

(* the upstream of the current Resolve call was a chain of levels: the     *)
(* root and every intermediate level answered, untruncated, with a         *)
(* referral that carries glue, and the last level with answer records      *)
ReferralChain ==
    /\ Len(trace) >= 2
    /\ \A i \in 1..(Len(trace) - 1) : GlueReferral(trace[i])
    /\ Answer(LastSent)

(* an answer record that a Get of the question will find: it has the       *)
(* queried type and class and a TTL that has not run out on arrival        *)
Cacheable(e) ==
    \E i \in 1..Len(e.outcome.Answers) :
        /\ e.outcome.Answers[i].Type = e.qtype
        /\ e.outcome.Answers[i].Class = e.qclass
        /\ e.outcome.Answers[i].TTL > 0

(* one query per level, each to a glue IP of the level above, and the      *)
(* answers of the last level returned                                      *)
ChainResolved ==
    /\ stack = <<>> \/ (Len(stack) = 1 /\ Top.pc = "got")
    /\ \A i \in 1..Len(trace) :
          /\ trace[i].protocol = UDP
          /\ SameQuery(trace[i], [trace[1] EXCEPT !.ns = trace[i].ns])
          /\ IF i = 1 THEN trace[i].ns \in RootServers
                      ELSE trace[i].ns \in AdditionalAIPs(trace[i-1].outcome)
    /\ stack = <<>> =>
          /\ result.status = "ok"
          /\ result.answers = LastSent.outcome.Answers

(* a Resolve of the same question before the clock moves is a cache hit *)
SecondResolveHits ==
    (stack = <<>> /\ result.status = "ok" /\ result.t = now) =>
        LiveUnder(cacheKey(trace[1].domain, trace[1].qtype, trace[1].qclass)) # <<>>

C10_MapShape ==
    (stack # <<>> /\ Top.pc = "got") =>
        LET msg == Top.msg
            au == msg.Authorities
            ad == msg.Additionals
            m == getAuthorities(msg)
            A(n) == {i \in 1..Len(ad) : ad[i].Name = n /\ ad[i].RData.kind = "ARecord"}
        IN /\ \A i \in 1..Len(au) : au[i].Name \in DOMAIN m
           /\ \A i \in 1..Len(ad) : ad[i].RData.kind = "ARecord" => ad[i].Name \in DOMAIN m
           /\ \A n \in DOMAIN m :
                 /\ (\E i \in 1..Len(au) : au[i].Name = n) \/ A(n) # {}
                 /\ IF A(n) = {} THEN m[n] = None
                    ELSE \E i \in A(n) : /\ \A j \in A(n) : j <= i
                                         /\ m[n] = ad[i].RData.IP

C10_ReferralStep ==
    (StepAt("got") /\ Top.msg.Header.ANCount = 0) =>
        IF AdditionalAIPs(Top.msg) # {}
        THEN /\ Len(stack') = Len(stack)
             /\ \E ip \in AdditionalAIPs(Top.msg) :
                   stack' = SetTop([Top EXCEPT !.pc = "udp", !.ns = ip, !.msg = None])
             /\ nSent' = nSent /\ records' = records /\ result' = result
        ELSE /\ Len(stack') = Len(stack)
             /\ Top'.pc = "auth"
             /\ Top'.remaining = {Top.msg.Authorities[i].Name : i \in 1..Len(Top.msg.Authorities)}

C10_GlueSelection == [](C10_MapShape) /\ [][C10_ReferralStep]_vars

(* after a referral with an NS record and two glue records the loop is     *)
(* about to query one of the two glue IPs, still in the first Resolve call *)
C10_Witness ==
    /\ Len(stack) = 1 /\ Top.pc = "udp"
    /\ Len(trace) = 1 /\ GlueReferral(trace[1])
    /\ Cardinality(AdditionalAIPs(trace[1].outcome)) = 2
    /\ trace[1].outcome.Header.NSCount > 0
    /\ Top.ns \in AdditionalAIPs(trace[1].outcome)

(* C11: getAuthority's second loop.  Entered after a response without      *)
(* answers and without any glue, it has all the authority names to try.    *)
(* While a name is left it starts Resolve(name, A, IN) for one of them; a  *)
(* nested Resolve that fails brings the loop back with the names that are  *)
(* left; with no name left Resolve returns the no-authority error, to the  *)
(* server loop or to the getAuthority that called it: the loop of Resolve  *)
(* is not continued and no success is returned.  No success is empty.      *)
C11_AuthStep ==
    /\ (StepAt("got") /\ Top.msg.Header.ANCount = 0 /\ AdditionalAIPs(Top.msg) = {}) =>
          /\ Top'.pc = "auth"
          /\ Top'.remaining =
                {Top.msg.Authorities[i].Name : i \in 1..Len(Top.msg.Authorities)}
    /\ StepAt("auth") =>
          /\ nSent' = nSent /\ records' = records
          /\ IF Top.remaining = {}
             THEN Returned([status |-> "err", err |-> "no-authority"])
             ELSE /\ Len(stack') = Len(stack) + 1
                  /\ result' = result
                  /\ \E k \in Top.remaining :
                        /\ Top' = Frame(k, RTA, RCIN)
                        /\ stack'[Len(stack)] =
                              [Top EXCEPT !.pc = "auth_wait", !.remaining = @ \ {k}]
    /\ (Len(stack) >= 2 /\ Len(stack') = Len(stack) - 1
          /\ (Top.pc \in {"udp", "tcp", "auth"})) =>
          Top' = [stack[Len(stack) - 1] EXCEPT !.pc = "auth"]

C11_NoEmptySuccess == result.status = "ok" => result.answers # <<>>

C11_NoAuthorityFails == [](C11_NoEmptySuccess) /\ [][C11_AuthStep]_vars

(* a referral without glue named two authorities, the nested Resolve of    *)
(* each failed, and Resolve returned the no-authority error                *)
C11_Witness ==
    /\ stack = <<>> /\ result = Err("no-authority")
    /\ Len(trace) = 3
    /\ ~IsError(trace[1].outcome) /\ trace[1].outcome.Header.NSCount = 2
    /\ IsError(trace[2].outcome) /\ IsError(trace[3].outcome)
    /\ trace[2].domain # trace[3].domain

(* C12: a send, over UDP or TCP, that fails with a transport error ends    *)
(* the Resolve call that sent it with that error: the call is gone from    *)
(* the stack, the server loop gets the error and no answers (a getAuthority*)
(* that made the call goes on with its next name), nothing is cached and   *)
(* the failed send is the last one of the call.                            *)
C12_ErrorStep ==
    (nSent' # nSent /\ trace'[Len(trace')].outcome = TransportError) =>
        /\ records' = records
        /\ Returned([status |-> "err", err |-> "transport"])
        /\ Len(stack) >= 2 => Top' = [stack[Len(stack) - 1] EXCEPT !.pc = "auth"]

C12_ErrorResult ==
    (stack = <<>> /\ result.status = "err") => "answers" \notin DOMAIN result

C12_TransportErrorAborts == [](C12_ErrorResult) /\ [][C12_ErrorStep]_vars

(* the TCP retry after a truncated UDP response failed, and Resolve        *)
(* returned the error with the cache still empty                           *)
C12_Witness ==
    /\ stack = <<>> /\ result = Err("transport")
    /\ Len(trace) = 2 /\ trace[2].protocol = TCP /\ trace[2].outcome = TransportError
    /\ records = <<>>

----------------------------------------------------------------------------
(* More properties of the parser                                           *)

(* a response whose answer is a TXT record of a. with RDLength 1 and the   *)
(* RDATA 00: one character-string of length 0                              *)
EmptyStringTXT ==
    Encoded(DNSHeader(0, QRMask, 1, 1, 0, 0)) \o WireQuestionA
        \o <<192, 12>> \o PutUint16(RTTXT) \o <<0, 1, 0, 0, 0, 0>>
        \o PutUint16(1) \o <<0, 1, 120>> \o <<0, 0>>

(* C24: a character-string with the length octet 0 decodes to the empty   *)
(* string and moves the cursor by one octet, so the TXT record that holds  *)
(* just that string decodes: ParseDNSMessage succeeds with the one answer, *)
(* its Data the one empty string, having advanced by its RDLength of 1     *)
C24_EmptyStringDecodes ==
    (parse.pc = "done" /\ reader.data = EmptyStringTXT) =>
        /\ readString([reader EXCEPT !.pos = 31]).ok
        /\ readString([reader EXCEPT !.pos = 31]).val = <<>>
        /\ readString([reader EXCEPT !.pos = 31]).r.pos = 32
        /\ parse.ok
        /\ Len(parse.m.Answers) = 1
        /\ parse.m.Answers[1].RData = TXTRecord(<< <<>> >>)
        /\ parse.advances = <<[RDLength |-> 1, advance |-> 1]>>

(* C25: a name whose leading octet has the top two bits 01 or 10 (64 to   *)
(* 191) makes the decode fail, in the question and in a record alike; the  *)
(* octet is not read as the length of a label                              *)
C25_ReservedLeadFails ==
    (parse.pc = "done" /\ reader.data \in {ReservedLeadQuery, ReservedLeadResponse}) =>
        ~parse.ok

----------------------------------------------------------------------------
(* Properties of the server                                                *)

(* a turn of the loop has handled a datagram that did not decode *)
DecodeFailed == server.turns > 0 /\ ~server.parsed

(* the header-only error response with the ID of the datagram: QR, RA and  *)
(* RCode 1 make the flags 0x8081, the four counts are 0                    *)
ErrorReply(in) == <<in[1], in[2], 128, 129, 0, 0, 0, 0, 0, 0, 0, 0>>

(* C21: a datagram that fails to decode as a Query after its ID was read   *)
(* (it holds the two octets of the ID) is answered with the header-only    *)
(* error response of that ID; one that fails before the ID was read is not *)
(* answered; either way the loop goes on to read the next datagram         *)
C21_ErrorReplySent ==
    DecodeFailed =>
        /\ IF Len(server.in) >= 2
              THEN server.replied /\ server.sent = ErrorReply(server.in)
              ELSE ~server.replied
        /\ ENABLED ReadFromUDP

(* a turn of the loop has answered a query *)
Answered == server.turns > 0 /\ server.resolved

(* C22: the message CreateAnswerMessage(q, answers) returns has the ID,    *)
(* the QDCount and the Questions of q, the flags QR and RA and no other    *)
(* flag bit (0x8080), ANCount = len(answers), Answers = answers, NSCount   *)
(* and ARCount 0 and no authorities or additionals                         *)
C22_AnswerMessage ==
    Answered =>
        /\ server.ans.Header.ID = server.q.Header.ID
        /\ server.ans.Header.QDCount = server.q.Header.QDCount
        /\ server.ans.Questions = server.q.Questions
        /\ server.ans.Header.flags = 32896
        /\ server.ans.Header.ANCount = Len(server.answers)
        /\ server.ans.Answers = server.answers
        /\ server.ans.Header.NSCount = 0 /\ server.ans.Header.ARCount = 0
        /\ server.ans.Authorities = <<>> /\ server.ans.Additionals = <<>>

(* a query with ID 0x1234, flags other than QR and RA set and a question   *)
(* was answered with two records                                            *)
C22_Answered ==
    /\ Answered
    /\ server.q.Header.ID = 4660
    /\ server.q.Header.flags # 0
    /\ Len(server.q.Questions) = 1
    /\ Len(server.answers) = 2

----------------------------------------------------------------------------
(* More properties of the cache                                            *)

(* every key of the map has a list with an entry in it *)
C28_ListsNonEmpty == \A k \in DOMAIN records : Len(records[k]) > 0

(* the body of Add leaves an entry under its key; the body of ClearExpired *)
(* for a key that is not in the map leaves the map as it is                *)
C28_WriterStep ==
    /\ (\E p \in Workers : pc[p] = "add_cs" /\ pc'[p] # "add_cs") =>
          \E p \in Workers :
              /\ pc[p] = "add_cs"
              /\ LET k == cacheKey(arg[p].domain, arg[p].v.Type, arg[p].v.Class)
                 IN k \in DOMAIN records' /\ Len(records'[k]) = Len(Lookup(records, k)) + 1
    /\ (ce.pc = "ce_cs" /\ ce'.pc = "ce_unlock" /\ ce.k \notin DOMAIN records) =>
          records' = records

(* C28: in every state of the cache each key of the records map has a     *)
(* non-empty list: Add leaves at least one entry under its key, and        *)
(* ClearExpired deletes the key rather than store an empty list, also when *)
(* the key was removed before the cleanup ran                              *)
C28_NoEmptyList == [](C28_ListsNonEmpty) /\ [][C28_WriterStep]_vars

(* a cleanup has run for a key that an earlier cleanup had removed, while  *)
(* an Add has put another key into the map                                 *)
C28_Witness ==
    /\ ce.pc = "ce_unlock"
    /\ ce.before = <<>>
    /\ ce.k \notin DOMAIN records
    /\ DOMAIN records # {}

(* a goroutine that is in no call of the cache holds no lock of it *)
C29_ReleasedOnReturn ==
    /\ \A p \in Workers : pc[p] = "idle" => mu.w # p /\ p \notin mu.readers
    /\ ce.pc = "idle" => mu.w # Cleaner

(* C29: with the goroutines scheduled fairly every Add, Get and           *)
(* ClearExpired on the shared cache returns in the end, and a call that    *)
(* has returned has released the lock it took                              *)
C29_CallsReturn ==
    /\ \A p \in Workers : (pc[p] # "idle") ~> (pc[p] = "idle")
    /\ (ce.pc # "idle") ~> (ce.pc = "idle")
    /\ [](C29_ReleasedOnReturn)

(* an Add waits for the write lock that a ClearExpired holds while a Get   *)
(* is in its call too                                                       *)
C29_Witness ==
    /\ ce.pc \in {"ce_wait", "ce_cs", "ce_unlock"}
    /\ \E p \in Workers : pc[p] = "add_lock"
    /\ \E p \in Workers : pc[p] \notin {"idle", "add_lock", "add_wait", "add_cs"}

----------------------------------------------------------------------------
(* More properties of the resolver                                         *)

(* the Resolve on top of the stack holds the response of its TCP retry (a  *)
(* UDP response with TC=1 is replaced before the loop goes on), and that   *)
(* response has TC=1 too                                                   *)
TruncatedOverTCP == stack # <<>> /\ Top.pc = "got" /\ Top.msg.Header.TC

(* C23: when the response to the TCP retry has TC=1 the Resolve fails: its *)
(* next step caches nothing, returns no answers, takes no nameserver from  *)
(* the response's glue and starts no Resolve of one of its authority       *)
(* names; what it returns, to the server loop or to the getAuthority that  *)
(* called it, is an error                                                  *)
C23_TruncatedTCPFails ==
    [][(TruncatedOverTCP /\ stack' # stack) =>
          /\ records' = records
          /\ Len(stack') <= Len(stack)
          /\ Len(stack') = Len(stack) => Top'.pc = "auth" /\ Top'.remaining = {}
          /\ stack' = <<>> => result'.status = "err"
          /\ (stack' # <<>> /\ Len(stack') < Len(stack)) => Top'.pc = "auth"]_vars

(* Resolve returned to the server loop from the cache: it sent nothing *)
CacheHit == stack = <<>> /\ result.status = "ok" /\ trace = <<>>

(* the records an upstream server has in the answer section of a response *)
AnswerRecords == UNION {{o.Answers[i] : i \in 1..Len(o.Answers)} : o \in Responses}

(* C27: what a cache hit returns are records of the answer section of an  *)
(* upstream response to the question: no glue A record and no other record *)
(* of an authority or additional section is among them                      *)
C27_HitReturnsAnswersOnly ==
    CacheHit => \A i \in 1..Len(result.answers) : result.answers[i] \in AnswerRecords

(* C26: every call of Resolve returns in the end, whatever the upstream    *)
(* servers answer                                                          *)
C26_ResolveReturns == (stack # <<>>) ~> (stack = <<>>)

(* no pick from an empty list has happened, and what the server loop got   *)
(* without an error has a record in it                                     *)
C30_NonEmptyResult ==
    /\ result.status # "panic"
    /\ result.status = "ok" => Len(result.answers) >= 1

(* a Resolve returns without an error from its cache check or with the     *)
(* answers of a response: the list has a record in it, and the             *)
(* getAuthority that called it goes on with the IP of one of its records   *)
(* or, that record having no IP, with its next name                        *)
C30_ReturnStep ==
    (stack # <<>> /\ Len(stack') < Len(stack) /\ Top.pc \in {"start", "got"}) =>
        LET list == IF Top.pc = "start"
                    THEN LiveUnder(cacheKey(Top.domain, Top.qtype, Top.qclass))
                    ELSE Top.msg.Answers
        IN /\ Len(list) >= 1
           /\ Top.pc = "got" => Len(list) = Top.msg.Header.ANCount
           /\ Len(stack) >= 2 =>
                 /\ Len(stack') = Len(stack) - 1
                 /\ \E i \in 1..Len(list) :
                       IF list[i].RData.kind = "ARecord"
                       THEN Top'.pc = "udp" /\ Top'.ns = list[i].RData.IP
                       ELSE Top'.pc = "auth"

=============================================================================
